---- MODULE Spec2Model ----
(***************************************************************************)
(* Verification model of the weather-market trading engine: the executor   *)
(* (engine/execution), the risk engine (engine/risk), the entry loop of    *)
(* the scan pipeline and the exit pipeline (engine/pipeline), over the     *)
(* durable store (engine/storage).                                         *)
(*                                                                         *)
(* Units: money is in cents, prices are in 1e-5 dollars, the spread        *)
(* ceiling is in 1e-4, time to resolution is in hours, cooldown in minutes.*)
(* Text (error messages) is a sequence of words.                           *)
(***************************************************************************)
EXTENDS Integers, Sequences, FiniteSets, Bags, TLC

\* ------------------------------------------------------------------------
\* Bounds of the model
\* ------------------------------------------------------------------------
MaxRuns == 1
MaxSignals == 2

\* ------------------------------------------------------------------------
\* Inputs
\* ------------------------------------------------------------------------
Markets == {"m1", "m2"}
CityOf == [m \in Markets |-> IF m = "m1" THEN "nyc" ELSE "chicago"]
Cities == {CityOf[m] : m \in Markets}
RunIds == 1..MaxRuns
\* YES prices quoted by the scan for an opportunity (0.075)
SignalPrices == {7500}
\* YES prices answered by the markets API in an exit pass (0.05, 0.45, 0.55)
ExitPrices == {5000, 45000, 55000}
\* bestBid and bestAsk the scan reads for each market (0.074 / 0.076 and
\* 0.050 / 0.090)
ScannedBook ==
  [m \in Markets |-> IF m = "m1" THEN [best_bid |-> 7400, best_ask |-> 7600]
                                   ELSE [best_bid |-> 5000, best_ask |-> 9000]]
\* hours until end_date seen by one risk evaluation
HoursValues == {1, 6}
\* minutes elapsed since the last successful trade on a market
ElapsedValues == {0, 30}
NoValue == -1

Modes == {"dry-run", "live"}
\* max_trades_per_run with max_total_exposure_usd: the second total admits
\* one position only
Limits == {<<1, 2500>>, <<2, 2500>>, <<2, 500>>}

\* engine/config/schema.py RiskConfig and StrategyConfig defaults, with the
\* mode, max_trades_per_run and max_total_exposure_usd varied
Configs ==
  { [ mode |-> m,
      max_position_size_usd |-> 500,
      max_trades_per_run |-> l[1],
      max_total_exposure_usd |-> l[2],
      max_per_city_exposure_usd |-> 1000,
      max_daily_loss_usd |-> 1000,
      cooldown_minutes |-> 30,
      min_hours_to_resolution |-> 6,
      slippage_ceiling |-> 500,
      min_exit_price |-> 45000,
      min_edge_threshold |-> 5000,
      max_entry_price |-> 15000,
      fee_estimate |-> 2000,
      slippage_estimate |-> 1000 ] : m \in Modes, l \in Limits }

\* ------------------------------------------------------------------------
\* Text
\* ------------------------------------------------------------------------
Contains(msg, sub) ==
  \E i \in 0..(Len(msg) - Len(sub)) :
     \A j \in 1..Len(sub) : msg[i + j] = sub[j]

MsgKillSwitch == <<"Kill", "switch", "active", "at", "executor", "level">>
MsgDuplicate == <<"Duplicate", "idempotency", "key">>
MsgDuplicateExit == <<"Duplicate", "exit", "order">>
MsgNoSimmerMarket == <<"No", "Simmer", "market", "found", "for", "token">>
MsgVendor == <<"insufficient", "balance">>
MsgHttp == <<"HTTP", "500">>
MsgBadJson == <<"Expecting", "value">>
MsgEmpty == << >>

\* ------------------------------------------------------------------------
\* Idempotency key
\* ------------------------------------------------------------------------
\* f"{price:.4f}": the price in 1e-5 units rendered at 4 decimal places
Fmt4(price) == (price + 5) \div 10

\* a key that leaves the run out of the hashed text
generate_idempotency_key_without_run(run, market_id, side, price) ==
  <<0, market_id, side, Fmt4(price)>>

\* sha256 of f"{run_id}|{market_id}|{side}|{price:.4f}", first 32 hex digits:
\* the key stands for the hashed text, digests of different texts differ
generate_idempotency_key(run, market_id, side, price) ==
  <<run, market_id, side, Fmt4(price)>>

\* ------------------------------------------------------------------------
\* Risk checks (engine/risk/checks)
\* ------------------------------------------------------------------------
RiskCheckResult(name, passed, reason) ==
  [check_name |-> name, passed |-> passed,
   block_reason |-> IF passed THEN "none" ELSE reason]

kill_switch_check(kill_switch_active) ==
  RiskCheckResult("kill_switch", ~kill_switch_active, "KILL_SWITCH")

paused_check(is_paused) ==
  RiskCheckResult("paused", ~is_paused, "PAUSED")

position_size_check(proposed_size_usd, max_position_size_usd) ==
  RiskCheckResult("position_size",
                  ~(proposed_size_usd > max_position_size_usd), "POSITION_SIZE")

trades_per_run_check(trades_this_run, max_trades_per_run) ==
  RiskCheckResult("trades_per_run",
                  ~(trades_this_run >= max_trades_per_run), "TRADES_PER_RUN")

\* a check that compares the current exposure alone with the limit
total_exposure_check_current_only(current_exposure_usd, proposed_size_usd, max_total_exposure_usd) ==
  RiskCheckResult("total_exposure",
                  ~(current_exposure_usd > max_total_exposure_usd),
                  "TOTAL_EXPOSURE")

total_exposure_check(current_exposure_usd, proposed_size_usd, max_total_exposure_usd) ==
  RiskCheckResult("total_exposure",
                  ~(current_exposure_usd + proposed_size_usd > max_total_exposure_usd),
                  "TOTAL_EXPOSURE")

per_city_exposure_check(city_exposure_usd, proposed_size_usd, max_per_city_exposure_usd) ==
  RiskCheckResult("per_city_exposure",
                  ~(city_exposure_usd + proposed_size_usd > max_per_city_exposure_usd),
                  "PER_CITY_EXPOSURE")

daily_loss_check(daily_loss_usd, max_daily_loss_usd) ==
  RiskCheckResult("daily_loss", ~(daily_loss_usd > max_daily_loss_usd), "DAILY_LOSS")

\* a check that also blocks at exactly cooldown_minutes
cooldown_check_inclusive(minutes_since_last_trade, cooldown_minutes) ==
  RiskCheckResult("cooldown",
                  ~(minutes_since_last_trade # NoValue
                    /\ minutes_since_last_trade <= cooldown_minutes),
                  "COOLDOWN")

cooldown_check(minutes_since_last_trade, cooldown_minutes) ==
  RiskCheckResult("cooldown",
                  ~(minutes_since_last_trade # NoValue
                    /\ minutes_since_last_trade < cooldown_minutes),
                  "COOLDOWN")

\* a check that also blocks at exactly min_hours
time_to_resolution_check_exclusive(hours_to_resolution, min_hours) ==
  RiskCheckResult("time_to_resolution", ~(hours_to_resolution <= min_hours),
                  "TIME_TO_RESOLUTION")

time_to_resolution_check(hours_to_resolution, min_hours) ==
  RiskCheckResult("time_to_resolution", ~(hours_to_resolution < min_hours),
                  "TIME_TO_RESOLUTION")

\* spread = (best_ask - best_bid) / best_bid, compared with the ceiling (1e-4)
slippage_check(best_bid, best_ask, slippage_ceiling) ==
  RiskCheckResult("slippage",
                  ~(best_bid <= 0
                    \/ (best_ask - best_bid) * 10000 > slippage_ceiling * best_bid),
                  "SLIPPAGE")

CheckNames ==
  <<"kill_switch", "paused", "position_size", "trades_per_run", "total_exposure",
    "per_city_exposure", "daily_loss", "cooldown", "time_to_resolution", "slippage">>

\* The facts one evaluation consumes: in = [kill_switch_active, is_paused,
\* proposed_size_usd, trades_this_run, total_exposure, city_exposure,
\* daily_loss, minutes_since_last_trade, hours, market_price_yes]
RiskChecks(in, config) ==
  << kill_switch_check(in.kill_switch_active),
     paused_check(in.is_paused),
     position_size_check(in.proposed_size_usd, config.max_position_size_usd),
     trades_per_run_check(in.trades_this_run, config.max_trades_per_run),
     total_exposure_check(in.total_exposure, in.proposed_size_usd,
                          config.max_total_exposure_usd),
     per_city_exposure_check(in.city_exposure, in.proposed_size_usd,
                             config.max_per_city_exposure_usd),
     daily_loss_check(in.daily_loss, config.max_daily_loss_usd),
     cooldown_check(in.minutes_since_last_trade, config.cooldown_minutes),
     time_to_resolution_check(in.hours, config.min_hours_to_resolution),
     slippage_check(in.market_price_yes, (in.market_price_yes * 102) \div 100,
                    config.slippage_ceiling) >>

\* an engine that stops at the first check that fails
evaluate_short_circuit(in, config) ==
  LET checks == RiskChecks(in, config)
      failing == {i \in 1..Len(checks) : ~checks[i].passed}
      last == IF failing = {} THEN Len(checks)
              ELSE CHOOSE i \in failing : \A j \in failing : i <= j
  IN [approved |-> failing = {},
      checks |-> SubSeq(checks, 1, last)]

\* RiskEngine.evaluate: all ten checks, then approved = all(passed)
evaluate(in, config) ==
  LET checks == RiskChecks(in, config)
  IN [approved |-> \A i \in 1..Len(checks) : checks[i].passed,
      checks |-> checks]

NoVerdict == [approved |-> FALSE, checks |-> << >>]

\* no risk evaluation yet in the operation in progress
NotEvaluated == [proposed_size_usd |-> NoValue]

\* ------------------------------------------------------------------------
\* State
\* ------------------------------------------------------------------------
VARIABLES
  kill_switch,     \* system_state['kill_switch'] = 'true'
  paused,          \* system_state['paused'] = 'true'
  cfg,             \* the EngineConfig of the process
  runs,            \* table runs: run_id -> status
  risk_checks,     \* table risk_checks: bag of rows
  order_intents,   \* table order_intents: bag of rows
  order_results,   \* table order_results: bag of rows
  positions,       \* table positions: sequence of rows, id = index
  pc,              \* position of the engine process
  run_id,          \* run_id of the operation in progress
  signals,         \* the cycle's signals, in net-edge order
  sig_idx,         \* index of the signal the entry loop is at
  tracker,         \* StateTracker of the cycle
  verdict,         \* RiskVerdict of the last evaluation
  since_last_trade, \* minutes_since_last_trade the last evaluation read
  evaluated,       \* the values the last risk evaluation was given
  events,          \* bucket markets of the last scan, each with its forecast
  edge_results,    \* table edge_results: sequence of rows
  schema_versions, \* table schema_versions: names of the applied migrations
  newly_applied,   \* what the last direct call of run_migrations returned
  operator_commands, \* table operator_commands: sequence of audit rows
  cli_pc,          \* the command a CLI process is in the middle of
  intent,          \* OrderIntent handed to the executor / built by the exit
  result,          \* OrderResult returned by the last execution
  raised,          \* message of the exception that left the last operation
  token_map,       \* LiveAdapter._token_map of the executor's adapter
  exit_positions,  \* ids of the positions an exit pass iterates over
  price_map,       \* prices fetched by the exit pass
  exit_idx,        \* index into exit_positions
  adapter_log,     \* adapter invocations: bag of [kind, key]
  trade_log,       \* requests sent to the brokerage trade endpoint: bag of keys
  interrupted,     \* keys whose writing operation was cut by a process stop
  exit_due,        \* run_id of the completed cycle whose exit pass is due, or 0
  signals_made,    \* number of signals generated so far, over all cycles
  forecast_cache,  \* ForecastFetcher._cache: (city_slug, target_date) -> forecast
  noaa,            \* the NoaaClient.get_forecast call in progress, if any
  noaa_log,        \* get_forecast invocations that have ended: bag of rows
  pid_file,        \* text of data/daemon.pid, or NoFile
  state_file,      \* the stats last written to data/daemon_state.json
  daemon           \* ScanDaemon object and position of each supervisor process

vars ==
  << kill_switch, paused, cfg, runs, risk_checks, order_intents, order_results,
     positions, pc, run_id, signals, sig_idx, tracker, verdict, since_last_trade,
     evaluated,
     intent, result, raised, token_map, exit_positions, price_map, exit_idx, adapter_log,
     trade_log, interrupted, exit_due, signals_made, events, edge_results,
     schema_versions, newly_applied, operator_commands, cli_pc,
     forecast_cache, noaa, noaa_log, pid_file, state_file, daemon >>

daemonVars == << pid_file, state_file, daemon >>
signalVars == << events, edge_results >>
adminVars == << schema_versions, newly_applied, operator_commands, cli_pc >>
fetchVars == << forecast_cache, noaa, noaa_log >>
dbVars == << runs, risk_checks, order_intents, order_results, positions >>
flagVars == << kill_switch, paused >>
cycleVars == << run_id, signals, sig_idx, tracker, verdict, since_last_trade,
               evaluated >>
exitVars == << exit_positions, price_map, exit_idx >>
worldVars == << adapter_log, trade_log >>

NoKey == << >>
NoIntent == [run_id |-> 0, idempotency_key |-> NoKey, market_id |-> "none",
             side |-> "none", price |-> 0, size_usd |-> 0, city_slug |-> "none"]
NoResult == [idempotency_key |-> NoKey, status |-> "none", fill_price |-> NoValue,
             fill_size |-> NoValue, error_message |-> MsgEmpty]
NoTracker == [trades_this_run |-> 0, total_exposure |-> NoValue,
              city_exposure |-> [c \in Cities |-> NoValue]]
Unbuilt == {"unbuilt"}

OrderIntent(run, market_id, side, price, size_usd) ==
  [run_id |-> run,
   idempotency_key |-> generate_idempotency_key(run, market_id, side, price),
   market_id |-> market_id, side |-> side, price |-> price,
   size_usd |-> size_usd, city_slug |-> CityOf[market_id]]

OrderResult(key, status, fill_price, fill_size, error_message) ==
  [idempotency_key |-> key, status |-> status, fill_price |-> fill_price,
   fill_size |-> fill_size, error_message |-> error_message]

\* ------------------------------------------------------------------------
\* Store (engine/storage)
\* ------------------------------------------------------------------------
\* a table is a bag of rows; INSERT adds one copy of the row
Insert(table, row) == table (+) SetToBag({row})

\* SELECT COUNT(*) FROM table WHERE P(row)
Count(table, P(_)) ==
  LET S == {r \in BagToSet(table) : P(r)}
  IN BagCardinality([r \in S |-> table[r]])

IntentRows(key) == Count(order_intents, LAMBDA r : r.idempotency_key = key)
ResultRows(key) == Count(order_results, LAMBDA r : r.idempotency_key = key)
RiskRows(key) == Count(risk_checks, LAMBDA r : r.idempotency_key = key)
AdapterCalls(key) == Count(adapter_log, LAMBDA r : r.key = key)
TradeRequests(key) == CopiesIn(key, trade_log)

\* a lookup that never finds the key
is_duplicate_never(key) == FALSE

\* IdempotencyChecker.is_duplicate: SELECT 1 FROM order_intents WHERE key = ?
is_duplicate(key) ==
  \E r \in BagToSet(order_intents) : r.idempotency_key = key

\* order_repo.get_order_intent_by_key(...) is not None
get_order_intent_by_key(key) ==
  \E r \in BagToSet(order_intents) : r.idempotency_key = key

\* order_intents.idempotency_key is UNIQUE: the INSERT raises on a second row
UniqueViolation(table, row) ==
  \E r \in BagToSet(table) : r.idempotency_key = row.idempotency_key

\* an INSERT whose transaction is never committed
save_order_intent_uncommitted(table, row) == table

save_order_intent(table, row) == Insert(table, row)

save_order_result(table, row) == Insert(table, row)

\* a reader that takes the flag for cleared whatever the store holds
is_kill_switch_active_never == FALSE

\* state_repo.is_kill_switch_active, state_repo.is_paused
is_kill_switch_active == kill_switch

\* a reader that takes the pause flag for cleared whatever the store holds
is_paused_never == FALSE

is_paused == paused

\* database._discover_migrations: the modules of engine/storage/migrations
Migrations == {"v001_initial"}

NotCalled == <<"not called">>

\* a runner that takes every discovered migration for pending
pending_migrations_all(applied) == Migrations

\* `if name not in applied`
pending_migrations(applied) == Migrations \ applied

\* INSERT OR IGNORE INTO system_state: a row that exists keeps its value
insert_or_ignore(exists, value, default) == IF exists THEN value ELSE default

\* database.run_migrations with v001_initial.up: the names applied after it,
\* the flags after it and the list it returns; the system_state rows exist
\* once v001_initial has been applied
run_migrations ==
  LET todo == pending_migrations(schema_versions)
      exists == "v001_initial" \in schema_versions
  IN [schema_versions |-> schema_versions \cup todo,
      kill_switch |-> IF "v001_initial" \in todo
                      THEN insert_or_ignore(exists, kill_switch, FALSE)
                      ELSE kill_switch,
      paused |-> IF "v001_initial" \in todo
                 THEN insert_or_ignore(exists, paused, FALSE)
                 ELSE paused,
      newly_applied |-> IF todo = {} THEN << >> ELSE <<"v001_initial">>]

\* the flag write of an operator: a control endpoint of the dashboard, which
\* opens the store with run_migrations and replaces the system_state row; the
\* dashboard and the CLI run in their own processes
set_system_state_kill_switch(value) ==
  /\ kill_switch # value
  /\ kill_switch' = value
  /\ paused' = run_migrations.paused
  /\ schema_versions' = run_migrations.schema_versions
  /\ UNCHANGED << cfg, daemonVars, fetchVars, signalVars, newly_applied, operator_commands, cli_pc,
                  dbVars, pc, cycleVars, intent, result, raised, token_map, exitVars,
                  worldVars, interrupted, exit_due, signals_made >>

set_system_state_paused(value) ==
  /\ paused # value
  /\ paused' = value
  /\ kill_switch' = run_migrations.kill_switch
  /\ schema_versions' = run_migrations.schema_versions
  /\ UNCHANGED << cfg, daemonVars, fetchVars, signalVars, newly_applied, operator_commands, cli_pc,
                  dbVars, pc, cycleVars, intent, result, raised, token_map, exitVars,
                  worldVars, interrupted, exit_due, signals_made >>

KillSwitchOn == set_system_state_kill_switch(TRUE)
KillSwitchOff == set_system_state_kill_switch(FALSE)
Pause == set_system_state_paused(TRUE)
Resume == set_system_state_paused(FALSE)

\* ------------------------------------------------------------------------
\* Adapters (engine/execution)
\* ------------------------------------------------------------------------
\* what the network answers to one HTTP request
NetOutcomes == {"success", "business_fail", "http_error", "bad_json"}
\* what building the token map can give: an error, or a map of these markets
\* (Simmer lists m1 and does not list m2)
TokenMaps == {{"m1"}}

Returned(res, sent) == [raised |-> FALSE, exc |-> MsgEmpty, value |-> res, sent |-> sent]
Raised(exc, sent) == [raised |-> TRUE, exc |-> exc, value |-> NoResult, sent |-> sent]

\* a client that sends the request a second time
SimmerClient_request_retry(net) ==
  [sent |-> <<net, net>>,
   error |-> IF net = "http_error" THEN "SimmerClientError"
             ELSE IF net = "bad_json" THEN "ValueError" ELSE "none",
   success |-> net = "success"]

\* SimmerClient._request: one HTTP request, no retry; status >= 400 and
\* httpx.RequestError become SimmerClientError, a body that is not JSON
\* raises from resp.json()
SimmerClient_request(net) ==
  [sent |-> <<net>>,
   error |-> IF net = "http_error" THEN "SimmerClientError"
             ELSE IF net = "bad_json" THEN "ValueError" ELSE "none",
   success |-> net = "success"]

\* a simulated fill that reports the size in shares instead of dollars
DryRunAdapter_execute_in_shares(it) ==
  Returned(OrderResult(it.idempotency_key, "DRY_RUN", it.price,
                       IF it.price > 0 THEN (it.size_usd * 1000) \div it.price ELSE 0,
                       MsgEmpty),
           << >>)

DryRunAdapter_execute(it) ==
  Returned(OrderResult(it.idempotency_key, "DRY_RUN", it.price, it.size_usd, MsgEmpty),
           << >>)

\* LiveAdapter.execute after the token map is there: map is the token map
LiveAdapter_execute(it, map, net) ==
  IF it.market_id \notin map
  THEN Returned(OrderResult(it.idempotency_key, "REJECTED", NoValue, NoValue,
                            MsgNoSimmerMarket), << >>)
  ELSE LET r == SimmerClient_request(net)
       IN IF r.error = "SimmerClientError"
          THEN Returned(OrderResult(it.idempotency_key, "FAILED", NoValue, NoValue,
                                    MsgHttp), r.sent)
          ELSE IF r.error = "ValueError"
          THEN Raised(MsgBadJson, r.sent)
          ELSE IF r.success
          THEN Returned(OrderResult(it.idempotency_key, "FILLED", it.price,
                                    it.size_usd, MsgEmpty), r.sent)
          ELSE Returned(OrderResult(it.idempotency_key, "REJECTED", NoValue, NoValue,
                                    MsgVendor), r.sent)

\* LiveAdapter.execute_sell with clob_token_id = "": no token map lookup
LiveAdapter_execute_sell(key, shares, net) ==
  LET r == SimmerClient_request(net)
  IN IF r.error = "SimmerClientError"
     THEN Returned(OrderResult(key, "FAILED", NoValue, NoValue, MsgHttp), r.sent)
     ELSE IF r.error = "ValueError"
     THEN Raised(MsgBadJson, r.sent)
     ELSE IF r.success
     THEN Returned(OrderResult(key, "FILLED", 0, shares, MsgEmpty), r.sent)
     ELSE Returned(OrderResult(key, "REJECTED", NoValue, NoValue, MsgVendor), r.sent)

\* the operation in progress returns (or raises) to its caller: the process
\* is idle again and the operation's objects are gone
Finish ==
  /\ pc' = "idle"
  /\ run_id' = 0
  /\ signals' = << >>
  /\ sig_idx' = 0
  /\ tracker' = NoTracker
  /\ verdict' = NoVerdict
  /\ since_last_trade' = NoValue
  /\ evaluated' = NotEvaluated
  /\ intent' = NoIntent
  /\ result' = NoResult
  /\ raised' = MsgEmpty
  /\ token_map' = Unbuilt
  /\ exit_positions' = << >>
  /\ price_map' = [m \in Markets |-> NoValue]
  /\ exit_idx' = 0

\* ------------------------------------------------------------------------
\* Executor.execute (engine/execution/executor.py)
\* ------------------------------------------------------------------------
\* steps 1-3: kill switch recheck, idempotency check, persist intent
ExecBegin ==
  /\ pc = "exec_begin"
  /\ IF is_kill_switch_active
     THEN /\ result' = OrderResult(intent.idempotency_key, "REJECTED", NoValue,
                                   NoValue, MsgKillSwitch)
          /\ pc' = "exec_return"
          /\ UNCHANGED << order_intents, raised >>
     ELSE IF is_duplicate(intent.idempotency_key)
     THEN /\ result' = OrderResult(intent.idempotency_key, "DUPLICATE", NoValue,
                                   NoValue, MsgDuplicate)
          /\ pc' = "exec_return"
          /\ UNCHANGED << order_intents, raised >>
     ELSE IF UniqueViolation(order_intents, intent)
     THEN /\ raised' = <<"UNIQUE", "constraint", "failed">>
          /\ pc' = "exec_return"
          /\ UNCHANGED << order_intents, result >>
     ELSE /\ order_intents' = save_order_intent(order_intents, intent)
          /\ pc' = "exec_adapter"
          /\ UNCHANGED << result, raised >>
  /\ UNCHANGED << flagVars, cfg, daemonVars, fetchVars, signalVars, adminVars, runs, risk_checks, order_results, positions,
                  cycleVars, intent, token_map, exitVars, worldVars, interrupted, exit_due, signals_made >>

\* a handler that reports the failure without the exception's message
Trap_without_message(call, key) ==
  IF call.raised
  THEN OrderResult(key, "FAILED", NoValue, NoValue, MsgEmpty)
  ELSE call.value

\* the try/except around self.adapter.execute(intent)
Trap(call, key) ==
  IF call.raised
  THEN OrderResult(key, "FAILED", NoValue, NoValue, call.exc)
  ELSE call.value

\* an adapter invocation and how it ended: returned, or raised exc
Invocation(kind, key, call) ==
  [kind |-> kind, key |-> key, raised |-> call.raised, exc |-> call.exc]

\* the HTTP requests of one adapter call, recorded under the order's key
Sent(log, key, sent) ==
  IF Len(sent) = 0 THEN log ELSE log (+) [k \in {key} |-> Len(sent)]

\* step 4: dispatch to the adapter
ExecAdapterDryRun ==
  /\ pc = "exec_adapter"
  /\ cfg.mode = "dry-run"
  /\ LET call == DryRunAdapter_execute(intent)
     IN /\ result' = Trap(call, intent.idempotency_key)
        /\ adapter_log' = Insert(adapter_log,
                                 Invocation("buy", intent.idempotency_key, call))
  /\ pc' = "exec_persist"
  /\ UNCHANGED << flagVars, cfg, daemonVars, fetchVars, signalVars, adminVars, dbVars, cycleVars, intent, raised, token_map,
                  exitVars, trade_log, interrupted, exit_due, signals_made >>

ExecAdapterLive ==
  /\ pc = "exec_adapter"
  /\ cfg.mode = "live"
  /\ \/ \* _resolve_simmer_id: building the token map fails
        /\ token_map = Unbuilt
        /\ LET call == Raised(MsgHttp, << >>)
           IN /\ result' = Trap(call, intent.idempotency_key)
              /\ adapter_log' = Insert(adapter_log,
                                       Invocation("buy", intent.idempotency_key, call))
        /\ UNCHANGED << token_map, trade_log >>
     \/ \E map \in TokenMaps, net \in NetOutcomes :
          /\ token_map \in {Unbuilt, map}
          /\ token_map' = map
          /\ LET call == LiveAdapter_execute(intent, map, net)
             IN /\ result' = Trap(call, intent.idempotency_key)
                /\ adapter_log' = Insert(adapter_log,
                                         Invocation("buy", intent.idempotency_key, call))
                /\ trade_log' = Sent(trade_log, intent.idempotency_key, call.sent)
  /\ pc' = "exec_persist"
  /\ UNCHANGED << flagVars, cfg, daemonVars, fetchVars, signalVars, adminVars, dbVars, cycleVars, intent, raised, exitVars,
                  interrupted, exit_due, signals_made >>

\* step 5: persist the result and return it
ExecPersist ==
  /\ pc = "exec_persist"
  /\ order_results' = save_order_result(order_results, result)
  /\ pc' = "exec_return"
  /\ UNCHANGED << flagVars, cfg, daemonVars, fetchVars, signalVars, adminVars, runs, risk_checks, order_intents, positions,
                  cycleVars, intent, result, raised, token_map, exitVars,
                  worldVars, interrupted, exit_due, signals_made >>

\* ------------------------------------------------------------------------
\* A caller of Executor.execute with intents of its own
\* ------------------------------------------------------------------------
CallerRunIds == {1}

DirectCall ==
  /\ pc = "idle"
  /\ \E m \in Markets, p \in SignalPrices :
       intent' = OrderIntent(CHOOSE r \in CallerRunIds : TRUE, m, "BUY", p, cfg.max_position_size_usd)
  /\ result' = NoResult
  /\ raised' = MsgEmpty
  /\ pc' = "exec_begin"
  /\ UNCHANGED << flagVars, cfg, daemonVars, fetchVars, signalVars, adminVars, dbVars, cycleVars, token_map, exitVars,
                  worldVars, interrupted, exit_due, signals_made >>

\* the caller keeps the executor (and its adapter) for its next call
DirectReturn ==
  /\ pc = "exec_return"
  /\ pc' = "idle"
  /\ intent' = NoIntent
  /\ result' = NoResult
  /\ raised' = MsgEmpty
  /\ UNCHANGED << flagVars, cfg, daemonVars, fetchVars, signalVars, adminVars, dbVars, cycleVars, token_map, exitVars,
                  worldVars, interrupted, exit_due, signals_made >>

\* the process stops: memory is lost, the store stays
InExecution == pc \in {"exec_adapter", "exec_persist", "exit_sell"}

Crash ==
  /\ pc # "idle"
  /\ interrupted' = IF InExecution THEN interrupted \cup {intent.idempotency_key}
                    ELSE interrupted
  /\ Finish
  /\ UNCHANGED << flagVars, cfg, daemonVars, fetchVars, signalVars, adminVars, dbVars, worldVars, exit_due, signals_made >>

\* ------------------------------------------------------------------------
\* StateTracker (engine/risk/state_tracker.py)
\* ------------------------------------------------------------------------
Sum(seq, P(_)) ==
  LET RECURSIVE S(_)
      S(i) == IF i = 0 THEN 0
              ELSE (IF P(seq[i]) THEN seq[i].size_usd ELSE 0) + S(i - 1)
  IN S(Len(seq))

\* position_repo.get_total_open_exposure
get_total_open_exposure == Sum(positions, LAMBDA r : r.status = "open")

\* position_repo.get_city_open_exposure
get_city_open_exposure(city) ==
  Sum(positions, LAMBDA r : r.status = "open" /\ r.city_slug = city)

\* StateTracker.hydrate
hydrate(t) == [t EXCEPT !.total_exposure = get_total_open_exposure,
                        !.city_exposure = [c \in Cities |-> NoValue]]

\* StateTracker.city_exposure: hydrated from the store on first use
city_exposure(t, city) ==
  IF t.city_exposure[city] = NoValue
  THEN [t EXCEPT !.city_exposure[city] = get_city_open_exposure(city)]
  ELSE t

\* a tracker that adds the exposure and forgets to count the trade
record_trade_exposure_only(t, city, size_usd) ==
  [t EXCEPT !.total_exposure = IF @ # NoValue THEN @ + size_usd ELSE @,
            !.city_exposure[city] = IF @ # NoValue THEN @ + size_usd ELSE @]

\* a tracker that counts the trade and leaves its exposures as they were
record_trade_count_only(t, city, size_usd) == [t EXCEPT !.trades_this_run = @ + 1]

\* StateTracker.record_trade
record_trade(t, city, size_usd) ==
  [t EXCEPT !.trades_this_run = @ + 1,
            !.total_exposure = IF @ # NoValue THEN @ + size_usd ELSE @,
            !.city_exposure[city] = IF @ # NoValue THEN @ + size_usd ELSE @]

\* order_repo.get_last_trade_time_for_market(...) is not None
has_last_trade(market_id) ==
  \E r \in BagToSet(order_results), i \in BagToSet(order_intents) :
     /\ r.idempotency_key = i.idempotency_key
     /\ i.market_id = market_id
     /\ r.status \in {"DRY_RUN", "FILLED"}

\* table daily_pnl: position_repo.save_daily_pnl is its only writer and no
\* pipeline, adapter or command of the engine calls it, so the table holds
\* the rows of its creation: none
daily_pnl == {}

NoRow == [total_pnl |-> NoValue]

\* position_repo.get_daily_pnl for today's date
get_daily_pnl ==
  IF daily_pnl = {} THEN NoRow ELSE CHOOSE row \in daily_pnl : TRUE

\* StateTracker.daily_loss: |total_pnl| of today's row when it is negative
daily_loss ==
  LET pnl == get_daily_pnl
  IN IF pnl = NoRow THEN 0
     ELSE IF pnl.total_pnl < 0 THEN 0 - pnl.total_pnl ELSE 0

\* ------------------------------------------------------------------------
\* ScanPipeline.run (engine/pipeline/scan_pipeline.py)
\* ------------------------------------------------------------------------
Signal(market_id, price, size) ==
  [market_id |-> market_id, market_price_yes |-> price, proposed_size_usd |-> size]

SeqsUpTo(S, n) == UNION {[1..k -> S] : k \in 0..n}

\* a completion whose UPDATE is never committed
complete_run_uncommitted(table, run, status) == table

\* state_repo.complete_run
complete_run(table, run, status) == [table EXCEPT ![run] = status]

\* a store that drops the position
save_position_dropped(table, market_id, city, entry_price, size_usd) == table

\* position_repo.save_position
save_position(table, market_id, city, entry_price, size_usd) ==
  Append(table, [market_id |-> market_id, city_slug |-> city,
                 entry_price |-> entry_price, current_price |-> entry_price,
                 size_usd |-> size_usd, unrealized_pnl |-> 0, status |-> "open"])

\* a writer that records the failed checks only
save_risk_checks_failed_only(table, run, key, checks) ==
  LET RECURSIVE Ins(_, _)
      Ins(t, i) == IF i > Len(checks) THEN t
                   ELSE Ins(IF checks[i].passed THEN t
                            ELSE Insert(t, [run_id |-> run, idempotency_key |-> key,
                                            check_name |-> checks[i].check_name]),
                            i + 1)
  IN Ins(table, 1)

\* risk_repo.save_risk_checks: one row per check, one commit (the columns
\* passed, block_reason and detail are left out of the rows)
save_risk_checks(table, run, key, checks) ==
  LET RECURSIVE Ins(_, _)
      Ins(t, i) == IF i > Len(checks) THEN t
                   ELSE Ins(Insert(t, [run_id |-> run, idempotency_key |-> key,
                                       check_name |-> checks[i].check_name]), i + 1)
  IN Ins(table, 1)

\* 1. INIT: a new run_id, create_run; max_runs bounds the cycles of a behaviour
StartCycleUpTo(max_runs) ==
  /\ pc = "idle"
  /\ Len(runs) < max_runs
  /\ run_id' = Len(runs) + 1
  /\ runs' = Append(runs, "running")
  /\ pc' = "check_state"
  /\ signals' = << >>
  /\ sig_idx' = 0
  /\ tracker' = NoTracker
  /\ verdict' = NoVerdict
  /\ since_last_trade' = NoValue
  /\ evaluated' = NotEvaluated
  /\ intent' = NoIntent
  /\ result' = NoResult
  /\ raised' = MsgEmpty
  /\ token_map' = Unbuilt
  /\ exit_due' = 0
  /\ kill_switch' = run_migrations.kill_switch
  /\ paused' = run_migrations.paused
  /\ schema_versions' = run_migrations.schema_versions
  /\ UNCHANGED << cfg, daemonVars, fetchVars, signalVars, newly_applied, operator_commands, cli_pc,
                  risk_checks, order_intents, order_results, positions, exitVars,
                  worldVars, interrupted, signals_made >>

StartCycle == StartCycleUpTo(MaxRuns)

\* the kill switch and pause checks at the start of the run
CheckState ==
  /\ pc = "check_state"
  /\ IF is_kill_switch_active \/ is_paused
     THEN /\ runs' = complete_run(runs, run_id, "aborted")
          /\ Finish
     ELSE /\ pc' = "ingest"
          /\ UNCHANGED << runs, cycleVars, intent, result, raised, token_map,
                          exitVars >>
  /\ UNCHANGED << flagVars, cfg, daemonVars, fetchVars, signalVars, adminVars, risk_checks, order_intents, order_results,
                  positions, worldVars, interrupted, exit_due, signals_made >>

\* a bucket market as the scan returns it, with the forecast of its event:
\* forecast is forecasts.get((city_slug, target_date)) is not None,
\* bucket_probability the probability the forecast gives the bucket
BucketMarket(market_id, forecast, accepting_orders, liquidity, price, probability) ==
  [market_id |-> market_id, forecast |-> forecast,
   accepting_orders |-> accepting_orders, liquidity |-> liquidity,
   outcome_price_yes |-> price, bucket_probability |-> probability]

EdgeResult(run, market_id, price, net_edge, reason_code) ==
  [run_id |-> run, market_id |-> market_id, market_price_yes |-> price,
   net_edge |-> net_edge, reason_code |-> reason_code]

\* an edge computation that looks at the liquidity before accepting_orders
compute_edge_liquidity_first(run, bm, config) ==
  LET net_edge == bm.bucket_probability - bm.outcome_price_yes
                    - config.fee_estimate - config.slippage_estimate
  IN EdgeResult(run, bm.market_id, bm.outcome_price_yes, net_edge,
                IF bm.liquidity <= 0 THEN "ZERO_LIQUIDITY"
                ELSE IF ~bm.accepting_orders THEN "NOT_ACCEPTING_ORDERS"
                ELSE IF bm.outcome_price_yes > config.max_entry_price
                  THEN "PRICE_ABOVE_MAX_ENTRY"
                ELSE IF net_edge < 0 THEN "NEGATIVE_EDGE"
                ELSE IF net_edge < config.min_edge_threshold
                  THEN "EDGE_BELOW_THRESHOLD"
                ELSE "OPPORTUNITY")

\* edge_calculator.compute_edge
compute_edge(run, bm, config) ==
  LET net_edge == bm.bucket_probability - bm.outcome_price_yes
                    - config.fee_estimate - config.slippage_estimate
  IN EdgeResult(run, bm.market_id, bm.outcome_price_yes, net_edge,
                IF ~bm.accepting_orders THEN "NOT_ACCEPTING_ORDERS"
                ELSE IF bm.liquidity <= 0 THEN "ZERO_LIQUIDITY"
                ELSE IF bm.outcome_price_yes > config.max_entry_price
                  THEN "PRICE_ABOVE_MAX_ENTRY"
                ELSE IF net_edge < 0 THEN "NEGATIVE_EDGE"
                ELSE IF net_edge < config.min_edge_threshold
                  THEN "EDGE_BELOW_THRESHOLD"
                ELSE "OPPORTUNITY")

\* results.sort(key=net_edge, reverse=True): stable, descending
SortByNetEdge(results) ==
  LET Place(sorted, r) ==
        LET k == Cardinality({i \in 1..Len(sorted) :
                                sorted[i].net_edge >= r.net_edge})
        IN SubSeq(sorted, 1, k) \o <<r>> \o SubSeq(sorted, k + 1, Len(sorted))
      RECURSIVE S(_)
      S(i) == IF i = 0 THEN << >> ELSE Place(S(i - 1), results[i])
  IN S(Len(results))

\* SignalGenerator.generate
generate(run, evs, config) ==
  SortByNetEdge([i \in 1..Len(evs) |->
                   IF ~evs[i].forecast
                   THEN EdgeResult(run, evs[i].market_id, evs[i].outcome_price_yes,
                                   0, "NO_FORECAST_AVAILABLE")
                   ELSE compute_edge(run, evs[i], config)])

\* SignalGenerator.filter_opportunities
filter_opportunities(results) ==
  SelectSeq(results, LAMBDA r : r.reason_code = "OPPORTUNITY")

\* SignalGenerator.to_signals
to_signals(opportunities, config) ==
  [i \in 1..Len(opportunities) |->
     Signal(opportunities[i].market_id, opportunities[i].market_price_yes,
            config.max_position_size_usd)]

\* the bucket markets of a scan in which every bucket is an opportunity
OpportunityBuckets ==
  {BucketMarket(m, TRUE, TRUE, 1000, price, 20000) :
     m \in Markets, price \in SignalPrices}

\* 2-4. ingest and signal generation, then the tracker and the executor are
\* built; the scans of a cycle hold opportunities only, in any order
Ingest ==
  /\ pc = "ingest"
  /\ \E scan \in SeqsUpTo(OpportunityBuckets, MaxSignals - signals_made) :
       LET results == generate(run_id, scan, cfg)
       IN /\ events' = scan
          /\ edge_results' = edge_results \o results
          /\ signals' = to_signals(filter_opportunities(results), cfg)
  /\ signals_made' = signals_made + Len(signals')
  /\ tracker' = hydrate(NoTracker)
  /\ sig_idx' = 1
  /\ pc' = IF Len(signals') = 0 THEN "report" ELSE "evaluate"
  /\ UNCHANGED << flagVars, cfg, daemonVars, fetchVars, dbVars, run_id, verdict, since_last_trade, evaluated,
                  intent, result, raised, token_map, exitVars, worldVars, interrupted,
                  exit_due, adminVars >>

\* an exception inside the try block: the run is completed as failed
IngestFails ==
  /\ pc = "ingest"
  /\ runs' = complete_run(runs, run_id, "failed")
  /\ Finish
  /\ UNCHANGED << flagVars, cfg, daemonVars, fetchVars, signalVars, adminVars, risk_checks, order_intents, order_results,
                  positions, worldVars, interrupted, exit_due, signals_made >>

\* a loop that lets a verdict through unless a control flag blocked it
not_approved_by_flag(v) == ~v.checks[1].passed \/ ~v.checks[2].passed

\* `if not verdict.approved:` of the entry loop
not_approved(v) == ~v.approved

\* the key the entry loop derives for the signal at index i
SignalKey(i) ==
  generate_idempotency_key(run_id, signals[i].market_id, "BUY",
                           signals[i].market_price_yes)

\* where the entry loop goes after the signal at sig_idx
NextSignalPc == IF sig_idx < Len(signals) THEN "evaluate" ELSE "report"

\* one iteration up to the verdict: evaluate, save_risk_checks, and either
\* `continue` or build the intent and call the executor
Evaluate ==
  /\ pc = "evaluate"
  /\ LET sig == signals[sig_idx]
         city == CityOf[sig.market_id]
         t == city_exposure(tracker, city)
         key == SignalKey(sig_idx)
     IN \E hours \in HoursValues, elapsed \in ElapsedValues :
          /\ has_last_trade(sig.market_id) \/ elapsed = 0
          /\ LET in == [kill_switch_active |-> is_kill_switch_active,
                        is_paused |-> is_paused,
                        proposed_size_usd |-> sig.proposed_size_usd,
                        trades_this_run |-> t.trades_this_run,
                        total_exposure |-> t.total_exposure,
                        city_exposure |-> t.city_exposure[city],
                        daily_loss |-> daily_loss,
                        minutes_since_last_trade |->
                          IF has_last_trade(sig.market_id) THEN elapsed ELSE NoValue,
                        hours |-> hours,
                        market_price_yes |-> sig.market_price_yes]
                 v == evaluate(in, cfg)
             IN /\ verdict' = v
                /\ since_last_trade' = in.minutes_since_last_trade
                /\ evaluated' = in
                /\ tracker' = t
                /\ risk_checks' = save_risk_checks(risk_checks, run_id, key, v.checks)
                /\ IF not_approved(v)
                   THEN /\ pc' = NextSignalPc
                        /\ sig_idx' = sig_idx + 1
                        /\ UNCHANGED intent
                   ELSE /\ intent' = OrderIntent(run_id, sig.market_id, "BUY",
                                                 sig.market_price_yes,
                                                 sig.proposed_size_usd)
                        /\ pc' = "exec_begin"
                        /\ UNCHANGED sig_idx
  /\ result' = NoResult
  /\ UNCHANGED << flagVars, cfg, daemonVars, fetchVars, signalVars, adminVars, runs, order_intents, order_results, positions,
                  run_id, signals, raised, token_map, exitVars, worldVars,
                  interrupted, exit_due, signals_made >>

\* after executor.execute: record the trade and open the position on
\* DRY_RUN / FILLED, then the max-trades break
PostExec ==
  /\ pc = "exec_return"
  /\ IF raised # MsgEmpty
     THEN /\ runs' = complete_run(runs, run_id, "failed")
          /\ Finish
          /\ UNCHANGED positions
     ELSE LET sig == signals[sig_idx]
              ok == result.status \in {"DRY_RUN", "FILLED"}
              t == IF ok
                   THEN record_trade(tracker, CityOf[sig.market_id],
                                     sig.proposed_size_usd)
                   ELSE tracker
          IN /\ tracker' = t
             /\ positions' = IF ok
                             THEN save_position(positions, sig.market_id,
                                                CityOf[sig.market_id],
                                                sig.market_price_yes,
                                                sig.proposed_size_usd)
                             ELSE positions
             /\ pc' = IF t.trades_this_run >= cfg.max_trades_per_run
                      THEN "report" ELSE NextSignalPc
             /\ sig_idx' = sig_idx + 1
             /\ intent' = NoIntent
             /\ result' = NoResult
             /\ UNCHANGED << runs, run_id, signals, verdict, since_last_trade, evaluated, raised, token_map,
                             exitVars >>
  /\ UNCHANGED << flagVars, cfg, daemonVars, fetchVars, signalVars, adminVars, risk_checks, order_intents, order_results,
                  worldVars, interrupted, exit_due, signals_made >>

\* 6. REPORT: complete_run(..., "completed")
Report ==
  /\ pc = "report"
  /\ runs' = complete_run(runs, run_id, "completed")
  /\ exit_due' = run_id
  /\ Finish
  /\ UNCHANGED << flagVars, cfg, daemonVars, fetchVars, signalVars, adminVars, risk_checks, order_intents, order_results,
                  positions, worldVars, interrupted, signals_made >>

\* ------------------------------------------------------------------------
\* ExitPipeline (engine/pipeline/exit_pipeline.py)
\* ------------------------------------------------------------------------
\* position_repo.get_open_positions_with_ids: ids of the open positions
get_open_positions_with_ids ==
  LET RECURSIVE Ids(_)
      Ids(i) == IF i = 0 THEN << >>
                ELSE IF positions[i].status = "open" THEN Append(Ids(i - 1), i)
                ELSE Ids(i - 1)
  IN Ids(Len(positions))

\* position_repo.update_position_price: mark to market
update_position_price(table, id, price) ==
  [table EXCEPT ![id].current_price = price,
                ![id].unrealized_pnl =
                   IF table[id].entry_price > 0
                   THEN (table[id].size_usd * (price - table[id].entry_price))
                          \div table[id].entry_price
                   ELSE 0]

\* position_repo.close_position
close_position(table, id) == [table EXCEPT ![id].status = "closed"]

\* shares = size_usd / entry_price
Shares(size_usd, entry_price) ==
  IF entry_price > 0 THEN (size_usd * 1000) \div entry_price ELSE 0

\* the exit pass runs after the entry stage of a cycle has completed
ExitPassDue ==
  /\ pc = "idle"
  /\ exit_due # 0

\* ExitPipeline.run up to the list of open positions: the exit pass of the
\* cycle that has just completed, under that cycle's run_id; it returns at
\* once under kill switch or pause, and without open positions
ExitStart ==
  /\ ExitPassDue
  /\ exit_due' = 0
  /\ IF is_kill_switch_active \/ is_paused \/ Len(get_open_positions_with_ids) = 0
     THEN UNCHANGED << pc, cycleVars, intent, result, raised, token_map, exitVars >>
     ELSE /\ exit_positions' = get_open_positions_with_ids
          /\ run_id' = exit_due
          /\ pc' = "exit_fetch"
          /\ UNCHANGED << signals, sig_idx, tracker, verdict, since_last_trade, evaluated, intent, result,
                          raised, token_map, price_map, exit_idx >>
  /\ UNCHANGED << flagVars, cfg, daemonVars, fetchVars, signalVars, adminVars, dbVars, worldVars, interrupted, signals_made >>

\* _fetch_current_prices: one request per market of the open positions, a
\* failed request leaves the market without a price
ExitFetch ==
  /\ pc = "exit_fetch"
  /\ LET unique_markets ==
           {positions[exit_positions[i]].market_id : i \in 1..Len(exit_positions)}
     IN \E pm \in [Markets -> ExitPrices \cup {NoValue}] :
          /\ \A m \in Markets \ unique_markets : pm[m] = NoValue
          /\ price_map' = pm
  /\ exit_idx' = 1
  /\ pc' = "exit_loop"
  /\ UNCHANGED << flagVars, cfg, daemonVars, fetchVars, signalVars, adminVars, dbVars, cycleVars, intent, result, raised,
                  token_map, exit_positions, worldVars, interrupted, exit_due, signals_made >>

\* the loop goes to the next position, or run returns after the last one
ExitAdvance ==
  IF exit_idx < Len(exit_positions)
  THEN /\ pc' = "exit_loop"
       /\ exit_idx' = exit_idx + 1
       /\ intent' = NoIntent
       /\ result' = NoResult
       /\ UNCHANGED << cycleVars, raised, token_map, exit_positions, price_map >>
  ELSE Finish

\* one position of the loop: skip, or mark to market, and above the
\* threshold _execute_exit up to the sell
ExitLoop ==
  /\ pc = "exit_loop"
  /\ LET id == exit_positions[exit_idx]
         pos == positions[id]
         current_price == price_map[pos.market_id]
         marked == update_position_price(positions, id, current_price)
         shares == Shares(pos.size_usd, pos.entry_price)
         it == OrderIntent(run_id, pos.market_id, "SELL", current_price, pos.size_usd)
     IN IF current_price = NoValue
        THEN /\ ExitAdvance
             /\ UNCHANGED << positions, order_intents, order_results >>
        ELSE IF ~(current_price >= cfg.min_exit_price)
        THEN /\ positions' = marked
             /\ ExitAdvance
             /\ UNCHANGED << order_intents, order_results >>
        ELSE IF get_order_intent_by_key(it.idempotency_key)
        THEN \* DUPLICATE: counted in exits_failed
             /\ positions' = marked
             /\ ExitAdvance
             /\ UNCHANGED << order_intents, order_results >>
        ELSE IF cfg.mode = "dry-run"
        THEN LET res == OrderResult(it.idempotency_key, "DRY_RUN", current_price,
                                    shares, MsgEmpty)
             IN /\ order_intents' = save_order_intent(order_intents, it)
                /\ order_results' = save_order_result(order_results, res)
                /\ positions' = close_position(marked, id)
                /\ ExitAdvance
        ELSE /\ positions' = marked
             /\ order_intents' = save_order_intent(order_intents, it)
             /\ intent' = it
             /\ pc' = "exit_sell"
             /\ UNCHANGED << order_results, cycleVars, result, raised, token_map,
                             exitVars >>
  /\ UNCHANGED << flagVars, cfg, daemonVars, fetchVars, signalVars, adminVars, runs, risk_checks, worldVars, interrupted, exit_due, signals_made >>

\* the live branch of _execute_exit: LiveAdapter().execute_sell, then
\* save_order_result and, back in run, close_position on FILLED; an
\* exception of execute_sell leaves _execute_exit and run
ExitSell ==
  /\ pc = "exit_sell"
  /\ LET id == exit_positions[exit_idx]
         pos == positions[id]
         shares == Shares(pos.size_usd, pos.entry_price)
     IN \E net \in NetOutcomes :
          LET call == LiveAdapter_execute_sell(intent.idempotency_key, shares, net)
          IN /\ adapter_log' = Insert(adapter_log,
                                      Invocation("sell", intent.idempotency_key, call))
             /\ trade_log' = Sent(trade_log, intent.idempotency_key, call.sent)
             /\ IF call.raised
                THEN /\ Finish
                     /\ UNCHANGED << order_results, positions >>
                ELSE /\ order_results' = save_order_result(order_results, call.value)
                     /\ positions' = IF call.value.status \in {"DRY_RUN", "FILLED"}
                                     THEN close_position(positions, id)
                                     ELSE positions
                     /\ ExitAdvance
  /\ UNCHANGED << flagVars, cfg, daemonVars, fetchVars, signalVars, adminVars, runs, risk_checks, order_intents, interrupted, exit_due, signals_made >>

\* ------------------------------------------------------------------------
\* The supervisor: engine/daemon.py
\* ------------------------------------------------------------------------
\* the processes that call ScanDaemon.start on one host; a process's pid is
\* its name
Daemons == {"d1", "d2"}

\* cycles run by all supervisors together
MaxScans == 3

DEFAULT_INTERVAL == 120

MAX_BACKOFF == 600

\* the interval argument of the constructor, in seconds
Intervals == {DEFAULT_INTERVAL, 400}

\* seconds a cycle takes, measured by time.monotonic
ScanSeconds == {30, 700}

\* data/daemon.pid does not exist
NoFile == "absent"

\* what a supervisor can find in data/daemon.pid when it starts: nothing, text
\* that is no integer, the pid of a process that is gone, the pid of a live
\* process that is no supervisor
InitialPidFiles == {NoFile, "garbage", "dead", "other"}

Min(a, b) == IF a <= b THEN a ELSE b

Max(a, b) == IF a >= b THEN a ELSE b

\* ScanDaemon.__init__
NewDaemon ==
  [pc |-> "off", interval |-> DEFAULT_INTERVAL, running |-> FALSE,
   consecutive_failures |-> 0, total_scans |-> 0, total_successes |-> 0,
   total_failures |-> 0, outcome |-> "none", wait |-> 0, remaining |-> 0]

NoState ==
  [pid |-> "none", interval |-> 0, mode |-> "none", total_scans |-> 0,
   total_successes |-> 0, total_failures |-> 0, consecutive_failures |-> 0]

\* the engine's variables, which the supervisor's own steps leave alone
engineVars ==
  << flagVars, cfg, dbVars, pc, cycleVars, intent, result, raised, token_map,
     exitVars, worldVars, interrupted, exit_due, signals_made, signalVars, adminVars,
     fetchVars >>

\* the process with this pid exists: os.kill(pid, 0) does not raise
\* ProcessLookupError
ProcessExists(p) ==
  \/ p = "other"
  \/ p \in Daemons /\ daemon[p].pc \notin {"off", "refused", "exited"}

\* int(PID_FILE.read_text().strip()) raises ValueError
NoInteger(text) == text = "garbage"

\* _check_not_already_running reaches sys.exit(1)
refuses_treating_stale_as_live(text) == text # NoFile

refuses(text) == text # NoFile /\ ~NoInteger(text) /\ ProcessExists(text)

\* ScanDaemon._save_state
save_state(d, dm) ==
  [pid |-> d, interval |-> dm.interval, mode |-> cfg.mode,
   total_scans |-> dm.total_scans, total_successes |-> dm.total_successes,
   total_failures |-> dm.total_failures,
   consecutive_failures |-> dm.consecutive_failures]

\* the process calls ScanDaemon.start
Start(d) ==
  /\ daemon[d].pc = "off"
  /\ daemon' = [daemon EXCEPT ![d].pc = "check"]
  /\ UNCHANGED << pid_file, state_file, engineVars >>

\* ScanDaemon._check_not_already_running
CheckNotAlreadyRunning(d) ==
  /\ daemon[d].pc = "check"
  /\ IF refuses(pid_file)
     THEN /\ daemon' = [daemon EXCEPT ![d].pc = "refused"]
          /\ UNCHANGED pid_file
     ELSE /\ daemon' = [daemon EXCEPT ![d].pc = "write"]
          /\ pid_file' = NoFile
  /\ UNCHANGED << state_file, engineVars >>

\* ScanDaemon._write_pid and _setup_signals: from here on SIGTERM and SIGINT
\* run the handler
WritePid(d) ==
  /\ daemon[d].pc = "write"
  /\ pid_file' = d
  /\ daemon' = [daemon EXCEPT ![d].pc = "begin"]
  /\ UNCHANGED << state_file, engineVars >>

\* start is between _setup_signals and self._running = True; in
\* "begin_stopped" the handler has run there
Beginning(d) == daemon[d].pc \in {"begin", "begin_stopped"}

\* self._running = True in start, and the statements down to the call of _loop
SetRunning(d) ==
  /\ Beginning(d)
  /\ daemon' = [daemon EXCEPT ![d].pc = "loop", ![d].running = TRUE]
  /\ UNCHANGED << pid_file, state_file, engineVars >>

\* the handler installed by _setup_signals, on SIGTERM or SIGINT; it logs the
\* signal and clears _running. A signal that finds _running False after the
\* loop was entered changes nothing
HandleStop(d) ==
  /\ \/ daemon[d].pc = "begin"
     \/ daemon[d].pc \in {"loop", "scan", "sleep"} /\ daemon[d].running
  /\ daemon' = [daemon EXCEPT ![d].running = FALSE,
                              ![d].pc = IF @ = "begin" THEN "begin_stopped"
                                        ELSE @]
  /\ UNCHANGED << pid_file, state_file, engineVars >>

\* cycles started so far by all supervisors
TotalScans == daemon["d1"].total_scans + daemon["d2"].total_scans

\* the test of `while self._running`
loop_continues_always(dm) == TRUE

loop_continues(dm) == dm.running

\* `while self._running`, and the first statement of _run_one_scan
LoopTest(d) ==
  /\ daemon[d].pc = "loop"
  /\ IF loop_continues(daemon[d])
     THEN /\ TotalScans < MaxScans
          /\ daemon' = [daemon EXCEPT ![d].pc = "scan",
                                      ![d].total_scans = @ + 1]
     ELSE daemon' = [daemon EXCEPT ![d].pc = "cleanup"]
  /\ UNCHANGED << pid_file, state_file, engineVars >>

\* how ScanPipeline.run ends: it returns a summary of a completed, an aborted
\* or a failed run, or an exception leaves it
PipelineOutcomes ==
  IF is_kill_switch_active \/ is_paused
  THEN {"aborted", "raised"}
  ELSE {"completed", "failed", "raised"}

\* a summary with errors only when the run was aborted
summary_errors_aborted_only(outcome) == outcome = "aborted"

\* a summary with errors only when an exception ended the run
summary_errors_failed_only(outcome) == outcome = "failed"

\* summary.errors is not empty
summary_errors(outcome) == outcome \in {"aborted", "failed"}

\* the value _run_one_scan returns
run_one_scan_success_unless_crashed(outcome) == outcome # "raised"

run_one_scan_success(outcome) ==
  outcome # "raised" /\ ~summary_errors(outcome)

\* the wait after a failed cycle
backoff_uncapped(interval, k) == interval * (2 ^ k)

backoff(interval, k) == Min(interval * (2 ^ k), MAX_BACKOFF)

\* the rest of _run_one_scan, then the body of _loop down to the sleep; what
\* the cycle itself writes is the subject of StartCycle .. Report
RunOneScanWith(d, outcomes) ==
  /\ daemon[d].pc = "scan"
  /\ \E outcome \in outcomes, elapsed \in ScanSeconds :
       LET dm == daemon[d]
           success == run_one_scan_success(outcome)
           k == IF success THEN 0 ELSE dm.consecutive_failures + 1
           w == IF success THEN dm.interval ELSE backoff(dm.interval, k)
           after == [dm EXCEPT !.pc = "sleep",
                               !.outcome = outcome,
                               !.total_successes = IF success THEN @ + 1 ELSE @,
                               !.total_failures = IF success THEN @ ELSE @ + 1,
                               !.consecutive_failures = k,
                               !.wait = w,
                               !.remaining = Max(0, w - elapsed)]
       IN /\ daemon' = [daemon EXCEPT ![d] = after]
          /\ state_file' = save_state(d, after)
  /\ UNCHANGED << pid_file, engineVars >>

RunOneScan(d) == RunOneScanWith(d, PipelineOutcomes)

\* the sleep in steps of one second: it ends when the time is up or when
\* _running is False; the outcome, wait and remaining are locals of the loop
\* body
Sleep(d) ==
  /\ daemon[d].pc = "sleep"
  /\ daemon' = [daemon EXCEPT ![d].pc = "loop", ![d].outcome = "none",
                              ![d].wait = 0, ![d].remaining = 0]
  /\ UNCHANGED << pid_file, state_file, engineVars >>

\* ScanDaemon._cleanup, and the return of start
Cleanup(d) ==
  /\ daemon[d].pc = "cleanup"
  /\ pid_file' = NoFile
  /\ daemon' = [daemon EXCEPT ![d].pc = "exited"]
  /\ state_file' = save_state(d, daemon[d])
  /\ UNCHANGED engineVars

\* ------------------------------------------------------------------------
\* ForecastFetcher and NoaaClient (engine/ingest/forecast_fetcher.py,
\* engine/ingest/noaa_client.py)
\* ------------------------------------------------------------------------
\* fetch calls made on one ForecastFetcher
MaxFetches == 2

TargetDates == {"2026-02-11", "2026-02-12"}

\* the cache keys (city.slug, target_date)
Pairs == Cities \X TargetDates

NoPair == <<"none", "none">>

max_retries == 3

\* seconds
retry_base_delay == 5

\* a period of the NOAA response: the first ten characters of startTime,
\* isDaytime, temperature
Period(date, is_daytime, temperature) ==
  [date |-> date, is_daytime |-> is_daytime, temperature |-> temperature]

\* properties.periods of a response of status 200
RawForecasts ==
  { << >>,
    << Period("2026-02-11", FALSE, 50) >>,
    << Period("2026-02-11", TRUE, 38), Period("2026-02-11", TRUE, 41),
       Period("2026-02-12", TRUE, 30) >> }

\* what one httpx.get can give: a response with its status, or a
\* httpx.RequestError (arrived is FALSE)
Responses ==
  {[arrived |-> TRUE, status |-> 200, periods |-> raw] : raw \in RawForecasts}
  \cup {[arrived |-> TRUE, status |-> st, periods |-> << >>] : st \in {503, 429, 404}}
  \cup {[arrived |-> FALSE, status |-> 0, periods |-> << >>]}

\* the highest temperature of the daytime periods of target_date, or NoValue
_extract_forecast_point(periods, target_date) ==
  LET RECURSIVE High(_, _)
      High(i, high_temp) ==
        IF i > Len(periods) THEN high_temp
        ELSE LET period == periods[i]
             IN IF /\ period.is_daytime
                   /\ period.date = target_date
                   /\ (high_temp = NoValue \/ period.temperature > high_temp)
                THEN High(i + 1, period.temperature)
                ELSE High(i + 1, high_temp)
  IN High(1, NoValue)

\* ForecastFetcher.__init__: an empty cache
NoForecasts == [pair \in Pairs |-> NoValue]

NoResponse == [arrived |-> FALSE, status |-> NoValue, periods |-> << >>]

\* no fetch in progress; fetches counts the fetch calls made on the fetcher,
\* returned is what the last one returned (NoValue for None); attempt,
\* requests, delays and last (the last response) are those of the last
\* get_forecast call
NoCall ==
  [pc |-> "none", pair |-> NoPair, attempt |-> 0, requests |-> 0,
   delays |-> << >>, last |-> NoResponse, fetches |-> 0, returned |-> NoValue]

\* a fetcher that looks nothing up in its cache
cache_hit_never(cache, cache_key) == FALSE

\* `cache_key in self._cache`
cache_hit(cache, cache_key) == cache[cache_key] # NoValue

\* a client that retries whatever went wrong
retries_any_failure(response, attempt) == (~response.arrived \/ response.status # 200) /\ attempt < max_retries

\* the two `continue` of get_forecast: status 503 or 429, or a RequestError,
\* with attempts left
retries(response, attempt) == (~response.arrived \/ response.status \in {503, 429}) /\ attempt < max_retries

\* ForecastFetcher.fetch up to the call of self.noaa.get_forecast
Fetch ==
  /\ noaa.pc = "none"
  /\ noaa.fetches < MaxFetches
  /\ \E cache_key \in Pairs :
       IF cache_hit(forecast_cache, cache_key)
       THEN noaa' = [noaa EXCEPT !.fetches = @ + 1,
                                 !.returned = forecast_cache[cache_key]]
       ELSE noaa' = [noaa EXCEPT !.pc = "request", !.pair = cache_key,
                                 !.attempt = 0, !.requests = 0, !.delays = << >>,
                                 !.last = NoResponse, !.fetches = @ + 1,
                                 !.returned = NoValue]
  /\ UNCHANGED << forecast_cache, noaa_log, daemonVars, flagVars, cfg, dbVars, pc,
                  cycleVars, intent, result, raised, token_map, exitVars, worldVars,
                  interrupted, exit_due, signals_made, signalVars, adminVars >>

\* one iteration of the loop of NoaaClient.get_forecast: the request, then
\* the sleep before the next attempt, or the return or the raise; after the
\* return or the raise, the rest of ForecastFetcher.fetch
NoaaRequest ==
  /\ noaa.pc = "request"
  /\ \E response \in Responses :
       IF retries(response, noaa.attempt)
       THEN /\ noaa' = [noaa EXCEPT !.attempt = @ + 1, !.requests = @ + 1,
                                    !.last = response,
                                    !.delays = Append(@, retry_base_delay * (2 ^ noaa.attempt))]
            /\ UNCHANGED << forecast_cache, noaa_log >>
       ELSE LET ok == response.arrived /\ response.status = 200
                point == IF ok
                         THEN _extract_forecast_point(response.periods, noaa.pair[2])
                         ELSE NoValue
            IN /\ noaa_log' = Insert(noaa_log,
                                     [pair |-> noaa.pair, requests |-> noaa.requests + 1,
                                      outcome |-> IF ok THEN "returned" ELSE "raised",
                                      found |-> point # NoValue])
               /\ forecast_cache' = IF point # NoValue
                                    THEN [forecast_cache EXCEPT ![noaa.pair] = point]
                                    ELSE forecast_cache
               /\ noaa' = [noaa EXCEPT !.pc = "none", !.requests = @ + 1,
                                       !.last = response, !.returned = point]
  /\ UNCHANGED << daemonVars, flagVars, cfg, dbVars, pc, cycleVars, intent, result,
                  raised, token_map, exitVars, worldVars, interrupted, exit_due,
                  signals_made, signalVars, adminVars >>

\* ------------------------------------------------------------------------
\* Specifications
\* ------------------------------------------------------------------------
\* the store after run_migrations: empty tables, flags 'false'
InitWith(scans, applied) ==
  /\ kill_switch = FALSE
  /\ paused = FALSE
  /\ cfg \in Configs
  /\ runs = << >>
  /\ risk_checks = EmptyBag
  /\ order_intents = EmptyBag
  /\ order_results = EmptyBag
  /\ positions = << >>
  /\ pc = "idle"
  /\ run_id = 0
  /\ signals = << >>
  /\ sig_idx = 0
  /\ tracker = NoTracker
  /\ verdict = NoVerdict
  /\ since_last_trade = NoValue
  /\ evaluated = NotEvaluated
  /\ events \in scans
  /\ edge_results = << >>
  /\ schema_versions = applied
  /\ newly_applied = NotCalled
  /\ operator_commands = << >>
  /\ cli_pc = "none"
  /\ forecast_cache = NoForecasts
  /\ noaa = NoCall
  /\ noaa_log = EmptyBag
  /\ intent = NoIntent
  /\ result = NoResult
  /\ raised = MsgEmpty
  /\ token_map = Unbuilt
  /\ exit_positions = << >>
  /\ price_map = [m \in Markets |-> NoValue]
  /\ exit_idx = 0
  /\ adapter_log = EmptyBag
  /\ trade_log = EmptyBag
  /\ interrupted = {}
  /\ exit_due = 0
  /\ signals_made = 0
  /\ pid_file = NoFile
  /\ state_file = NoState
  /\ daemon = [d \in Daemons |-> NewDaemon]

\* the state after construction: empty store, no scan yet
Init == InitWith({<< >>}, Migrations)

\* RiskEngine.evaluate on any signal, tracker state, flags and clock
InitEvaluation(flags, configs, sigs, trackers) ==
  /\ kill_switch \in flags
  /\ paused \in flags
  /\ cfg \in configs
  /\ runs = << >>
  /\ risk_checks = EmptyBag
  /\ order_intents = EmptyBag
  /\ order_results = EmptyBag
  /\ positions = << >>
  /\ pc = "idle"
  /\ run_id = 0
  /\ signals \in {<<sig>> : sig \in sigs}
  /\ sig_idx = 1
  /\ tracker \in trackers
  /\ verdict = NoVerdict
  /\ since_last_trade = NoValue
  /\ evaluated = NotEvaluated
  /\ events = << >>
  /\ edge_results = << >>
  /\ schema_versions = Migrations
  /\ newly_applied = NotCalled
  /\ operator_commands = << >>
  /\ cli_pc = "none"
  /\ forecast_cache = NoForecasts
  /\ noaa = NoCall
  /\ noaa_log = EmptyBag
  /\ intent = NoIntent
  /\ result = NoResult
  /\ raised = MsgEmpty
  /\ token_map = Unbuilt
  /\ exit_positions = << >>
  /\ price_map = [m \in Markets |-> NoValue]
  /\ exit_idx = 0
  /\ adapter_log = EmptyBag
  /\ trade_log = EmptyBag
  /\ interrupted = {}
  /\ exit_due = 0
  /\ signals_made = 0
  /\ pid_file = NoFile
  /\ state_file = NoState
  /\ daemon = [d \in Daemons |-> NewDaemon]

InitRisk ==
  InitEvaluation(BOOLEAN, Configs,
                 {Signal(m, p, size) : m \in Markets, p \in {0, 7500}, size \in {500, 600}},
                 [trades_this_run : {0, 1, 2},
                  total_exposure : {0, 2500},
                  city_exposure : [Cities -> {0, 1000}]])

RiskEvaluateWith(hours_values, elapsed_values, losses) ==
  /\ LET sig == signals[sig_idx]
     IN \E hours \in hours_values, elapsed \in elapsed_values, loss \in losses :
          LET in == [kill_switch_active |-> is_kill_switch_active,
                     is_paused |-> is_paused,
                     proposed_size_usd |-> sig.proposed_size_usd,
                     trades_this_run |-> tracker.trades_this_run,
                     total_exposure |-> tracker.total_exposure,
                     city_exposure |-> tracker.city_exposure[CityOf[sig.market_id]],
                     daily_loss |-> loss,
                     minutes_since_last_trade |-> elapsed,
                     hours |-> hours,
                     market_price_yes |-> sig.market_price_yes]
          IN /\ since_last_trade' = elapsed
             /\ evaluated' = in
             /\ verdict' = evaluate(in, cfg)
  /\ UNCHANGED << flagVars, cfg, daemonVars, fetchVars, signalVars, adminVars, dbVars, pc, run_id, signals, sig_idx, tracker,
                  intent, result, raised, token_map, exitVars, worldVars,
                  interrupted, exit_due, signals_made >>

RiskEvaluate == RiskEvaluateWith(HoursValues, ElapsedValues \cup {NoValue}, {0, 1500})

NextRisk == RiskEvaluate

SpecRisk == InitRisk /\ [][NextRisk]_vars

\* RiskEngine.evaluate with every value at its limit, one below and one
\* above: sizes and exposures in cents around the limits of the default
\* configuration (5.00, 25.00, 10.00, 10.00), 29 to 31 minutes, 5 to 7 hours
BoundaryConfigs ==
  {c \in Configs : c.mode = "dry-run" /\ c.max_trades_per_run = 2
                     /\ c.max_total_exposure_usd = 2500}

InitBoundary ==
  InitEvaluation({FALSE}, BoundaryConfigs,
                 {Signal("m1", 7500, size) : size \in {499, 500, 501}},
                 [trades_this_run : {1, 2, 3},
                  total_exposure : {1999, 2000, 2001},
                  city_exposure : [Cities -> {499, 500, 501}]])

BoundaryEvaluate ==
  RiskEvaluateWith({5, 6, 7}, {29, 30, 31, NoValue}, {999, 1000, 1001})

NextBoundary == BoundaryEvaluate

SpecBoundary == InitBoundary /\ [][NextBoundary]_vars

\* Executor.execute driven by any caller, the operator and process stops
NextExec ==
  \/ DirectCall
  \/ ExecBegin
  \/ ExecAdapterDryRun
  \/ ExecAdapterLive
  \/ ExecPersist
  \/ DirectReturn
  \/ KillSwitchOn
  \/ KillSwitchOff
  \/ Crash

SpecExec == Init /\ [][NextExec]_vars

\* the engine: cycles and exit passes, with the operator at the controls
Next ==
  \/ StartCycle
  \/ CheckState
  \/ Ingest
  \/ IngestFails
  \/ Evaluate
  \/ ExecBegin
  \/ ExecAdapterDryRun
  \/ ExecAdapterLive
  \/ ExecPersist
  \/ PostExec
  \/ Report
  \/ ExitStart
  \/ ExitFetch
  \/ ExitLoop
  \/ ExitSell
  \/ KillSwitchOn
  \/ KillSwitchOff
  \/ Pause
  \/ Resume

Spec == Init /\ [][Next]_vars

\* the supervisors of one host, constructed with the interval the host is
\* configured with and started at any moment, with the operator's kill switch
\* and stop signals; made is the number of signals the scans have produced,
\* intervals the values the host may be configured with
InitHostWith(configs, made, intervals) ==
  /\ kill_switch = FALSE
  /\ paused = FALSE
  /\ cfg \in configs
  /\ runs = << >>
  /\ risk_checks = EmptyBag
  /\ order_intents = EmptyBag
  /\ order_results = EmptyBag
  /\ positions = << >>
  /\ pc = "idle"
  /\ run_id = 0
  /\ signals = << >>
  /\ sig_idx = 0
  /\ tracker = NoTracker
  /\ verdict = NoVerdict
  /\ since_last_trade = NoValue
  /\ evaluated = NotEvaluated
  /\ events = << >>
  /\ edge_results = << >>
  /\ schema_versions = Migrations
  /\ newly_applied = NotCalled
  /\ operator_commands = << >>
  /\ cli_pc = "none"
  /\ forecast_cache = NoForecasts
  /\ noaa = NoCall
  /\ noaa_log = EmptyBag
  /\ intent = NoIntent
  /\ result = NoResult
  /\ raised = MsgEmpty
  /\ token_map = Unbuilt
  /\ exit_positions = << >>
  /\ price_map = [m \in Markets |-> NoValue]
  /\ exit_idx = 0
  /\ adapter_log = EmptyBag
  /\ trade_log = EmptyBag
  /\ interrupted = {}
  /\ exit_due = 0
  /\ signals_made = made
  /\ pid_file \in InitialPidFiles
  /\ state_file = NoState
  /\ \E i \in intervals :
       daemon = [d \in Daemons |-> [NewDaemon EXCEPT !.interval = i]]

InitHost(configs) == InitHostWith(configs, 0, Intervals)

InitDaemon ==
  InitHost({c \in Configs : c.mode = "dry-run" /\ c.max_trades_per_run = 2
                              /\ c.max_total_exposure_usd = 2500})

\* the steps a supervisor process takes by itself
DaemonStep(d) ==
  \/ CheckNotAlreadyRunning(d)
  \/ WritePid(d)
  \/ SetRunning(d)
  \/ LoopTest(d)
  \/ RunOneScan(d)
  \/ Sleep(d)
  \/ Cleanup(d)

NextDaemon ==
  \/ \E d \in Daemons : Start(d)
  \/ \E d \in Daemons : CheckNotAlreadyRunning(d)
  \/ \E d \in Daemons : WritePid(d)
  \/ \E d \in Daemons : SetRunning(d)
  \/ \E d \in Daemons : HandleStop(d)
  \/ \E d \in Daemons : LoopTest(d)
  \/ \E d \in Daemons : RunOneScan(d)
  \/ \E d \in Daemons : Sleep(d)
  \/ \E d \in Daemons : Cleanup(d)
  \/ KillSwitchOn
  \/ KillSwitchOff

SpecDaemon == InitDaemon /\ [][NextDaemon]_vars

\* a process that is running keeps running: each supervisor takes its next
\* step in the end
SpecDaemonLive ==
  SpecDaemon /\ \A d \in Daemons : WF_vars(DaemonStep(d))

\* one supervisor with its cycles: _run_one_scan calls ScanPipeline.run in the
\* supervisor's own process and takes the summary the run returns
Supervisor == "d1"

InitSupervised ==
  InitHost({c \in Configs : c.max_trades_per_run = 2
                              /\ c.max_total_exposure_usd = 2500})

\* an exception leaves a statement of the try block of ScanPipeline.run that
\* nothing nearer traps (a request of the scan or of the forecasts, a
\* statement of the store): the except clause completes the run as failed
\* and run returns its summary; the adapter call is not among the places, as
\* the executor traps what the adapter raises
RaisingStages == {"ingest", "evaluate", "exec_begin", "exec_persist", "exec_return"}

CycleRaises ==
  /\ pc \in RaisingStages
  /\ runs' = complete_run(runs, run_id, "failed")
  /\ Finish
  /\ UNCHANGED << flagVars, cfg, daemonVars, fetchVars, signalVars, adminVars, risk_checks,
                  order_intents, order_results, positions, worldVars, interrupted,
                  exit_due, signals_made >>

\* pipeline.run() of _run_one_scan
SupervisedStart ==
  /\ daemon[Supervisor].pc = "scan"
  /\ Len(runs) < daemon[Supervisor].total_scans
  /\ StartCycle

\* `summary = pipeline.run()` has returned: the summary is the one of the run
\* just completed
SupervisedReturn ==
  /\ pc = "idle"
  /\ exit_due = 0
  /\ Len(runs) = daemon[Supervisor].total_scans
  /\ RunOneScanWith(Supervisor, {runs[Len(runs)]})

NextSupervised ==
  \/ Start(Supervisor)
  \/ CheckNotAlreadyRunning(Supervisor)
  \/ WritePid(Supervisor)
  \/ SetRunning(Supervisor)
  \/ HandleStop(Supervisor)
  \/ LoopTest(Supervisor)
  \/ SupervisedStart
  \/ CheckState
  \/ Ingest
  \/ CycleRaises
  \/ Evaluate
  \/ ExecBegin
  \/ ExecAdapterDryRun
  \/ ExecAdapterLive
  \/ ExecPersist
  \/ PostExec
  \/ Report
  \/ ExitStart
  \/ ExitFetch
  \/ ExitLoop
  \/ ExitSell
  \/ SupervisedReturn
  \/ Sleep(Supervisor)
  \/ Cleanup(Supervisor)
  \/ KillSwitchOn
  \/ KillSwitchOff

SpecSupervised == InitSupervised /\ [][NextSupervised]_vars

\* the supervisor over several cycles, with an operator who sets and clears
\* the kill switch and the pause flag at any moment; the scans of the cycles
\* that are not aborted find no market to trade
InitHalted ==
  /\ InitHostWith({c \in Configs : c.mode = "dry-run" /\ c.max_trades_per_run = 2
                                     /\ c.max_total_exposure_usd = 2500},
                  MaxSignals, Intervals)
  /\ pid_file = NoFile

HaltedStart ==
  /\ daemon[Supervisor].pc = "scan"
  /\ Len(runs) < daemon[Supervisor].total_scans
  /\ StartCycleUpTo(MaxScans)

NextHalted ==
  \/ Start(Supervisor)
  \/ CheckNotAlreadyRunning(Supervisor)
  \/ WritePid(Supervisor)
  \/ SetRunning(Supervisor)
  \/ HandleStop(Supervisor)
  \/ LoopTest(Supervisor)
  \/ HaltedStart
  \/ CheckState
  \/ Ingest
  \/ CycleRaises
  \/ Report
  \/ ExitStart
  \/ SupervisedReturn
  \/ Sleep(Supervisor)
  \/ Cleanup(Supervisor)
  \/ KillSwitchOn
  \/ KillSwitchOff
  \/ Pause
  \/ Resume

SpecHalted == InitHalted /\ [][NextHalted]_vars

\* intervals from one minute to fifteen, on both sides of MAX_BACKOFF
WideIntervals == {60, DEFAULT_INTERVAL, 400, MAX_BACKOFF, 900}

\* one supervisor constructed with any of these intervals; how its cycles end
\* is all that is seen of them
InitBackoff ==
  /\ InitHostWith({c \in Configs : c.mode = "dry-run" /\ c.max_trades_per_run = 2
                                     /\ c.max_total_exposure_usd = 2500},
                  0, WideIntervals)
  /\ pid_file = NoFile

NextBackoff ==
  \/ Start(Supervisor)
  \/ CheckNotAlreadyRunning(Supervisor)
  \/ WritePid(Supervisor)
  \/ SetRunning(Supervisor)
  \/ HandleStop(Supervisor)
  \/ LoopTest(Supervisor)
  \/ RunOneScan(Supervisor)
  \/ Sleep(Supervisor)
  \/ Cleanup(Supervisor)
  \/ KillSwitchOn
  \/ KillSwitchOff

SpecBackoff == InitBackoff /\ [][NextBackoff]_vars

\* one ForecastFetcher with its NoaaClient, as a cycle constructs them, and
\* a caller that fetches any pair any number of times
NextFetch == Fetch \/ NoaaRequest

InitFetch ==
  /\ Init
  /\ cfg.mode = "dry-run"
  /\ cfg.max_trades_per_run = 2
  /\ cfg.max_total_exposure_usd = 2500

SpecFetch == InitFetch /\ [][NextFetch]_vars

\* a request gets its response, or its error, in the end (timeout = 30 s)
SpecFetchLive == SpecFetch /\ WF_vars(NoaaRequest)

\* the store as earlier cycles can leave it: one or two positions, each opened
\* by the filled BUY of its own run, and the last of these runs completed
BoughtIn(run, market_id) ==
  OrderIntent(run, market_id, "BUY", 7500, 500)

StoreAfterBuys(markets, mode) ==
  [positions |-> [i \in 1..Len(markets) |->
                    save_position(<< >>, markets[i], CityOf[markets[i]], 7500, 500)[1]],
   order_intents |-> SetToBag({BoughtIn(i, markets[i]) : i \in 1..Len(markets)}),
   order_results |-> SetToBag({
      IF mode = "dry-run"
      THEN DryRunAdapter_execute(BoughtIn(i, markets[i])).value
      ELSE OrderResult(BoughtIn(i, markets[i]).idempotency_key, "FILLED", 7500, 500,
                       MsgEmpty) : i \in 1..Len(markets)}),
   runs |-> [i \in 1..Len(markets) |-> "completed"]]

\* an exit pass over positions that earlier cycles opened
InitAfterBuys(configs) ==
  /\ kill_switch = FALSE
  /\ paused = FALSE
  /\ cfg \in configs
  /\ \E markets \in [1..1 -> Markets] \cup [1..2 -> Markets] :
       LET store == StoreAfterBuys(markets, cfg.mode)
       IN /\ runs = store.runs
          /\ order_intents = store.order_intents
          /\ order_results = store.order_results
          /\ positions = store.positions
          /\ exit_due = Len(markets)
  /\ risk_checks = EmptyBag
  /\ pc = "idle"
  /\ run_id = 0
  /\ signals = << >>
  /\ sig_idx = 0
  /\ tracker = NoTracker
  /\ verdict = NoVerdict
  /\ since_last_trade = NoValue
  /\ evaluated = NotEvaluated
  /\ events = << >>
  /\ edge_results = << >>
  /\ schema_versions = Migrations
  /\ newly_applied = NotCalled
  /\ operator_commands = << >>
  /\ cli_pc = "none"
  /\ forecast_cache = NoForecasts
  /\ noaa = NoCall
  /\ noaa_log = EmptyBag
  /\ intent = NoIntent
  /\ result = NoResult
  /\ raised = MsgEmpty
  /\ token_map = Unbuilt
  /\ exit_positions = << >>
  /\ price_map = [m \in Markets |-> NoValue]
  /\ exit_idx = 0
  /\ adapter_log = EmptyBag
  /\ trade_log = EmptyBag
  /\ interrupted = {}
  /\ signals_made = 0
  /\ pid_file = NoFile
  /\ state_file = NoState
  /\ daemon = [d \in Daemons |-> NewDaemon]

InitExit ==
  InitAfterBuys({c \in Configs : c.max_trades_per_run = 2
                                  /\ c.max_total_exposure_usd = 2500})

NextExit ==
  \/ ExitStart
  \/ ExitFetch
  \/ ExitLoop
  \/ ExitSell
  \/ KillSwitchOn
  \/ KillSwitchOff
  \/ Pause
  \/ Resume

SpecExit == InitExit /\ [][NextExit]_vars

\* an operator's configuration that lets a position close below its entry
\* price: min_exit_price 0.05 and max_daily_loss_usd 1.00 (both inside the
\* ranges of engine/config/schema.py)
LossConfigs ==
  {[c EXCEPT !.min_exit_price = 5000, !.max_daily_loss_usd = 100] :
     c \in {k \in Configs : k.max_trades_per_run = 2
                             /\ k.max_total_exposure_usd = 2500}}

InitLoss == InitAfterBuys(LossConfigs)

\* RiskEngine.evaluate on a signal between two passes, its StateTracker
\* reading the store as it stands
TrackerEvaluate ==
  /\ pc = "idle"
  /\ \E m \in Markets, hours \in HoursValues, elapsed \in ElapsedValues :
       /\ has_last_trade(m) \/ elapsed = 0
       /\ signals' = <<Signal(m, 7500, 500)>>
       /\ sig_idx' = 1
       /\ since_last_trade' = IF has_last_trade(m) THEN elapsed ELSE NoValue
       /\ LET in == [kill_switch_active |-> is_kill_switch_active,
                     is_paused |-> is_paused,
                     proposed_size_usd |-> 500,
                     trades_this_run |-> 0,
                     total_exposure |-> get_total_open_exposure,
                     city_exposure |-> get_city_open_exposure(CityOf[m]),
                     daily_loss |-> daily_loss,
                     minutes_since_last_trade |->
                       IF has_last_trade(m) THEN elapsed ELSE NoValue,
                     hours |-> hours,
                     market_price_yes |-> 7500]
          IN /\ evaluated' = in
             /\ verdict' = evaluate(in, cfg)
  /\ UNCHANGED << flagVars, cfg, daemonVars, fetchVars, signalVars, adminVars, dbVars, pc, run_id, tracker, intent, result,
                  raised, token_map, exitVars, worldVars, interrupted, exit_due,
                  signals_made >>

NextLoss ==
  \/ ExitStart
  \/ ExitFetch
  \/ ExitLoop
  \/ ExitSell
  \/ TrackerEvaluate

SpecLoss == InitLoss /\ [][NextLoss]_vars

\* SignalGenerator on any scan: one or two bucket markets, the first of m1 and
\* the second of m2, with or without a forecast, accepting orders or not, with
\* or without liquidity, priced below, at and above max_entry_price, with a net
\* edge below zero, at zero, at min_edge_threshold and above it
Scans ==
  LET Buckets(m) ==
        {BucketMarket(m, forecast, accepting_orders, liquidity, price, probability) :
           forecast \in BOOLEAN, accepting_orders \in BOOLEAN,
           liquidity \in {0, 1000}, price \in {7500, 15000, 16000},
           probability \in {9000, 10500, 15500, 30000}}
  IN {<<b>> : b \in Buckets("m1")}
       \cup {<<b1, b2>> : b1 \in Buckets("m1"), b2 \in Buckets("m2")}

InitEdge == InitWith(Scans, Migrations)

\* generate, save_edge_result for every result, filter_opportunities and
\* to_signals, called on the scan at hand
GenerateDirect ==
  /\ pc = "idle"
  /\ edge_results = << >>
  /\ LET results == generate(run_id, events, cfg)
     IN /\ edge_results' = results
        /\ signals' = to_signals(filter_opportunities(results), cfg)
  /\ UNCHANGED << flagVars, cfg, daemonVars, fetchVars, dbVars, pc, run_id, sig_idx, tracker, verdict,
                  since_last_trade, evaluated, intent, result, raised, token_map, exitVars,
                  worldVars, interrupted, exit_due, signals_made, events, adminVars >>

NextEdge == GenerateDirect

SpecEdge == InitEdge /\ [][NextEdge]_vars

\* generate_idempotency_key called for any run, market, side and price: prices
\* 0.07500 and 0.07504 render as 0.0750, 0.07506 as 0.0751, 0.08000 as 0.0800
KeyRunIds == {1, 2}
KeyPrices == {7500, 7504, 7506, 8000}

KeyDirect ==
  /\ pc = "idle"
  /\ \E r \in KeyRunIds, m \in Markets, side \in {"BUY", "SELL"}, p \in KeyPrices :
       intent' = OrderIntent(r, m, side, p, cfg.max_position_size_usd)
  /\ UNCHANGED << flagVars, cfg, daemonVars, fetchVars, signalVars, adminVars, dbVars, pc, cycleVars, result,
                  raised, token_map, exitVars, worldVars, interrupted, exit_due,
                  signals_made >>

NextKey == KeyDirect

SpecKey == Init /\ [][NextKey]_vars

\* a new store, the operator's commands and direct calls of run_migrations
MaxCommands == 2

InitFresh == InitWith({<< >>}, {})

\* run_migrations called for itself: status, health, the dashboard's reads
RunMigrations ==
  /\ schema_versions' = run_migrations.schema_versions
  /\ kill_switch' = run_migrations.kill_switch
  /\ paused' = run_migrations.paused
  /\ newly_applied' = run_migrations.newly_applied
  /\ UNCHANGED << cfg, daemonVars, fetchVars, signalVars, operator_commands, cli_pc, dbVars, pc,
                  cycleVars, intent, result, raised, token_map, exitVars, worldVars,
                  interrupted, exit_due, signals_made >>

CliCommands == {"pause", "resume", "kill-switch on", "kill-switch off"}

\* _cmd_pause, _cmd_resume, _cmd_kill_switch up to the commit of
\* set_system_state
CliSetState ==
  /\ cli_pc = "none"
  /\ Len(operator_commands) < MaxCommands
  /\ \E cmd \in CliCommands :
       /\ cli_pc' = cmd
       /\ kill_switch' = IF cmd = "kill-switch on" THEN TRUE
                         ELSE IF cmd = "kill-switch off" THEN FALSE
                         ELSE run_migrations.kill_switch
       /\ paused' = IF cmd = "pause" THEN TRUE
                    ELSE IF cmd = "resume" THEN FALSE
                    ELSE run_migrations.paused
  /\ schema_versions' = run_migrations.schema_versions
  /\ UNCHANGED << cfg, daemonVars, fetchVars, signalVars, newly_applied, operator_commands, dbVars,
                  pc, cycleVars, intent, result, raised, token_map, exitVars, worldVars,
                  interrupted, exit_due, signals_made >>

\* log_operator_command and its commit, the rest of the command
CliLogCommand ==
  /\ cli_pc # "none"
  /\ operator_commands' = Append(operator_commands, cli_pc)
  /\ cli_pc' = "none"
  /\ UNCHANGED << flagVars, cfg, daemonVars, fetchVars, signalVars, schema_versions, newly_applied,
                  dbVars, pc, cycleVars, intent, result, raised, token_map, exitVars,
                  worldVars, interrupted, exit_due, signals_made >>

\* the CLI process is killed between the two commits
CliStops ==
  /\ cli_pc # "none"
  /\ cli_pc' = "none"
  /\ UNCHANGED << flagVars, cfg, daemonVars, fetchVars, signalVars, schema_versions, newly_applied,
                  operator_commands, dbVars, pc, cycleVars, intent, result, raised,
                  token_map, exitVars, worldVars, interrupted, exit_due, signals_made >>

NextOps ==
  \/ RunMigrations
  \/ KillSwitchOn
  \/ KillSwitchOff
  \/ Pause
  \/ Resume
  \/ CliSetState
  \/ CliLogCommand
  \/ CliStops

SpecOps == InitFresh /\ [][NextOps]_vars

\* ------------------------------------------------------------------------
\* Properties
\* ------------------------------------------------------------------------
\* keys that appear in the store or at the adapters
KnownKeys ==
  {r.idempotency_key : r \in BagToSet(order_intents)}
    \cup {r.idempotency_key : r \in BagToSet(order_results)}
    \cup {r.key : r \in BagToSet(adapter_log)}
    \cup BagToSet(trade_log)

\* at most one intent row and one result row per key
OneRowPerKey ==
  \A key \in KnownKeys : IntentRows(key) <= 1 /\ ResultRows(key) <= 1

\* a step in which Executor.execute, called with a key that already has an
\* intent row, returns
ReturnsOnKnownKey ==
  /\ pc = "exec_begin"
  /\ pc' = "exec_return"
  /\ IntentRows(intent.idempotency_key) >= 1

\* C1 as stated: after any sequence of Executor.execute calls there is at
\* most one intent row and one result row per idempotency key, and a call
\* whose key already has an intent row returns DUPLICATE and adds no intent
\* row and no result row.
C1_DuplicateOnKnownKey ==
  /\ []OneRowPerKey
  /\ [][ReturnsOnKnownKey =>
          /\ result'.status = "DUPLICATE"
          /\ order_intents' = order_intents
          /\ order_results' = order_results]_vars

\* C1 amended: at most one intent row and one result row per key; a call
\* whose key already has an intent row returns DUPLICATE when the kill
\* switch is off and REJECTED when it is on (the kill-switch recheck comes
\* first), and in both cases adds no intent row and no result row.
C1_DuplicateUnlessKillSwitch ==
  /\ []OneRowPerKey
  /\ [][ReturnsOnKnownKey =>
          /\ raised' = MsgEmpty
          /\ result'.status = IF kill_switch THEN "REJECTED" ELSE "DUPLICATE"
          /\ order_intents' = order_intents
          /\ order_results' = order_results]_vars

\* a second call on a key returned DUPLICATE; the key has its one intent row
\* and its one result row
C1_Witness ==
  /\ pc = "exec_return"
  /\ result.status = "DUPLICATE"
  /\ IntentRows(intent.idempotency_key) = 1
  /\ ResultRows(intent.idempotency_key) = 1

\* C2: for any idempotency key the adapter is invoked at most once and the
\* brokerage trade endpoint receives at most one request, over any sequence
\* of Executor.execute calls, re-submissions after FAILED and after a
\* process stop included.
C2_AtMostOnce ==
  \A key \in KnownKeys : AdapterCalls(key) <= 1 /\ TradeRequests(key) <= 1

\* a key whose first call sent its trade request and ended FAILED is
\* submitted again and comes back DUPLICATE, with no second request
C2_Witness ==
  /\ pc = "exec_return"
  /\ result.status = "DUPLICATE"
  /\ \E r \in BagToSet(order_results) :
        r.idempotency_key = intent.idempotency_key /\ r.status = "FAILED"
  /\ AdapterCalls(intent.idempotency_key) = 1
  /\ TradeRequests(intent.idempotency_key) = 1

\* a key whose first call was cut by a process stop after the intent was
\* persisted is submitted again and comes back DUPLICATE
C2_WitnessAfterStop ==
  /\ pc = "exec_return"
  /\ result.status = "DUPLICATE"
  /\ intent.idempotency_key \in interrupted
  /\ ResultRows(intent.idempotency_key) = 0

\* C3 as stated: while the kill switch is set no order is dispatched to an
\* adapter, neither a BUY by the executor nor a SELL by the exit pipeline,
\* whatever point of a running cycle the flag was set at.
C3_NoDispatchUnderKillSwitch ==
  [][kill_switch => adapter_log' = adapter_log /\ trade_log' = trade_log]_vars

\* the same for the executor's BUY alone
C3_NoBuyUnderKillSwitch ==
  [][kill_switch /\ pc = "exec_adapter" => adapter_log' = adapter_log]_vars

\* the same for the exit pipeline's SELL alone
C3_NoSellUnderKillSwitch ==
  [][kill_switch /\ pc = "exit_sell" => adapter_log' = adapter_log]_vars

\* a step in which Executor.execute reads the kill switch and finds it set
RechecksUnderKillSwitch ==
  /\ pc = "exec_begin"
  /\ pc' # pc
  /\ kill_switch

\* C4: if the kill switch is set when Executor.execute is called, also when
\* it was set after the risk engine approved the signal, execute returns
\* REJECTED with a message containing "Kill switch", does not call the
\* adapter, and writes no intent row and no result row.
C4_RejectedUnderKillSwitch ==
  [][RechecksUnderKillSwitch =>
       /\ pc' = "exec_return"
       /\ raised' = MsgEmpty
       /\ result'.status = "REJECTED"
       /\ Contains(result'.error_message, <<"Kill", "switch">>)
       /\ adapter_log' = adapter_log
       /\ trade_log' = trade_log
       /\ order_intents' = order_intents
       /\ order_results' = order_results]_vars

\* the risk engine approved the signal, the flag was set afterwards, and the
\* executor returned REJECTED without a row or an adapter call
C4_Witness ==
  /\ pc = "exec_return"
  /\ verdict.approved
  /\ kill_switch
  /\ result.status = "REJECTED"
  /\ Contains(result.error_message, <<"Kill", "switch">>)
  /\ IntentRows(intent.idempotency_key) = 0
  /\ ResultRows(intent.idempotency_key) = 0
  /\ AdapterCalls(intent.idempotency_key) = 0

\* the operation that wrote the intent row of this key has ended
Ended(key) ==
  /\ ~(InExecution /\ intent.idempotency_key = key)
  /\ key \notin interrupted

\* C5 as stated: every intent row has exactly one result row with the same
\* key once the operation that wrote it (Executor.execute for a BUY, the exit
\* pipeline's SELL execution for an exit) has ended, whatever the adapter
\* outcome.
C5_OneResultPerIntent ==
  \A r \in BagToSet(order_intents) :
     Ended(r.idempotency_key) => ResultRows(r.idempotency_key) = 1

\* the same for the intents written by Executor.execute
C5_OneResultPerBuyIntent ==
  \A r \in BagToSet(order_intents) :
     r.side = "BUY" /\ Ended(r.idempotency_key) => ResultRows(r.idempotency_key) = 1

\* C6: RiskEngine.evaluate always returns exactly ten check results, in the
\* order kill_switch, paused, position_size, trades_per_run, total_exposure,
\* per_city_exposure, daily_loss, cooldown, time_to_resolution, slippage;
\* every check is there even when earlier checks failed, and approved is
\* true iff all ten passed.
C6_TenChecksInOrder ==
  verdict # NoVerdict =>
    /\ Len(verdict.checks) = 10
    /\ \A i \in 1..10 : verdict.checks[i].check_name = CheckNames[i]
    /\ verdict.approved <=> \A i \in 1..10 : verdict.checks[i].passed

\* the first check failed and the nine after it are there all the same, the
\* last of them failed too
C6_Witness ==
  /\ Len(verdict.checks) = 10
  /\ ~verdict.checks[1].passed
  /\ verdict.checks[9].passed
  /\ ~verdict.checks[10].passed
  /\ ~verdict.approved

\* the entry loop is running, or has just ended, over the cycle's signals
InEntryLoop ==
  pc \in {"evaluate", "exec_begin", "exec_adapter", "exec_persist", "exec_return",
          "report"}

\* the entry loop has evaluated the signal at index i
Evaluated(i) ==
  \/ i < sig_idx
  \/ i = sig_idx /\ pc \in {"exec_begin", "exec_adapter", "exec_persist",
                              "exec_return"}

\* C7 as stated: in any cycle, for every candidate signal, the number of
\* risk_checks rows persisted under the candidate's idempotency key is
\* exactly 10, regardless of verdict.
C7_TenRowsPerCandidate ==
  pc = "report" => \A i \in 1..Len(signals) : RiskRows(SignalKey(i)) = 10

\* C7 amended: for every signal the entry loop has evaluated, ten rows per
\* evaluation are persisted under its key regardless of verdict (signals of
\* one cycle that share a key share the rows); the signals left when the loop
\* stops at max_trades_per_run are not evaluated and add no rows.
C7_TenRowsPerEvaluation ==
  InEntryLoop =>
    \A i \in 1..Len(signals) :
       RiskRows(SignalKey(i)) =
         10 * Cardinality({j \in 1..Len(signals) :
                             Evaluated(j) /\ SignalKey(j) = SignalKey(i)})

\* the loop stopped at max_trades_per_run: the first signal has its ten
\* rows, the second was never evaluated and has none
C7_Witness ==
  /\ pc = "report"
  /\ Len(signals) = 2
  /\ sig_idx = 2
  /\ RiskRows(SignalKey(1)) = 10
  /\ RiskRows(SignalKey(2)) = 0

\* the rows under the key after the step
RiskRowsAfter(key) == Count(risk_checks', LAMBDA r : r.idempotency_key = key)

\* a step of the entry loop that evaluates a signal with a verdict that is
\* not approved
EvaluatesNotApproved ==
  /\ pc = "evaluate"
  /\ risk_checks' # risk_checks
  /\ ~verdict'.approved

\* C8: when the risk verdict for a signal is not approved the executor is
\* not called for it: no intent, no result and no position is written and
\* no adapter is invoked, while its ten risk-check rows are persisted.
C8_BlockedSignalNotExecuted ==
  [][EvaluatesNotApproved =>
       /\ pc' \in {"evaluate", "report"}
       /\ sig_idx' = sig_idx + 1
       /\ intent' = NoIntent
       /\ order_intents' = order_intents
       /\ order_results' = order_results
       /\ positions' = positions
       /\ adapter_log' = adapter_log
       /\ trade_log' = trade_log
       /\ RiskRowsAfter(SignalKey(sig_idx)) = RiskRows(SignalKey(sig_idx)) + 10]_vars

\* a signal was blocked by time_to_resolution alone: its ten rows are there
\* and nothing was written or sent under its key
C8_Witness ==
  /\ pc \in {"evaluate", "report"}
  /\ sig_idx > 1
  /\ Len(verdict.checks) = 10
  /\ ~verdict.checks[9].passed
  /\ \A i \in 1..8 : verdict.checks[i].passed
  /\ RiskRows(SignalKey(sig_idx - 1)) = 10
  /\ IntentRows(SignalKey(sig_idx - 1)) = 0
  /\ ResultRows(SignalKey(sig_idx - 1)) = 0
  /\ AdapterCalls(SignalKey(sig_idx - 1)) = 0

\* C9: inside Executor.execute the intent row is committed before the
\* adapter is invoked, and the result row is committed only after the
\* adapter has returned or raised; the adapter is never invoked for an
\* intent that is not durable.
C9_IntentBeforeAdapterBeforeResult ==
  /\ [][adapter_log' # adapter_log =>
          /\ IntentRows(intent.idempotency_key) = 1
          /\ ResultRows(intent.idempotency_key) = 0
          /\ order_results' = order_results]_vars
  /\ [][order_results' # order_results =>
          /\ AdapterCalls(intent.idempotency_key) = 1
          /\ adapter_log' = adapter_log]_vars
  /\ [](\A r \in BagToSet(adapter_log) : IntentRows(r.key) = 1)
  /\ [](\A r \in BagToSet(order_results) : AdapterCalls(r.idempotency_key) = 1)

\* the adapter has answered for a durable intent whose result row is not
\* written yet
C9_Witness ==
  /\ pc = "exec_persist"
  /\ IntentRows(intent.idempotency_key) = 1
  /\ AdapterCalls(intent.idempotency_key) = 1
  /\ ResultRows(intent.idempotency_key) = 0

\* the result Executor.execute owes to an adapter call that raised exc
FailedWith(res, key, exc) ==
  /\ res.idempotency_key = key
  /\ res.status = "FAILED"
  /\ res.error_message = exc

\* C10: an exception raised by the adapter is trapped by Executor.execute:
\* it returns, and does not raise, a FAILED result whose error_message is
\* the exception's message, and that result is persisted against the intent.
C10_AdapterExceptionTrapped ==
  /\ [][pc = "exec_adapter" /\ adapter_log' # adapter_log =>
          \A c \in BagToSet(adapter_log') :
             c.key = intent.idempotency_key /\ c.raised =>
               /\ pc' = "exec_persist"
               /\ raised' = MsgEmpty
               /\ FailedWith(result', c.key, c.exc)]_vars
  /\ [][pc = "exec_persist" /\ pc' = "exec_return" =>
          /\ raised' = MsgEmpty
          /\ result' = result
          /\ order_results' = Insert(order_results, result)]_vars
  /\ [](\A c \in BagToSet(adapter_log) :
          c.kind = "buy" /\ c.raised /\ Ended(c.key) =>
            /\ ResultRows(c.key) = 1
            /\ \E r \in BagToSet(order_results) : FailedWith(r, c.key, c.exc))

\* the adapter raised on a response that was not JSON; execute returned
\* FAILED with the exception's message and the row is in the store
C10_Witness ==
  /\ pc = "exec_return"
  /\ raised = MsgEmpty
  /\ FailedWith(result, intent.idempotency_key, MsgBadJson)
  /\ \E c \in BagToSet(adapter_log) :
        c.key = intent.idempotency_key /\ c.raised /\ c.exc = MsgBadJson
  /\ \E r \in BagToSet(order_results) :
        FailedWith(r, intent.idempotency_key, MsgBadJson)

SuccessfulBuys(r) ==
  Count(order_results,
        LAMBDA row : /\ row.idempotency_key[1] = r
                     /\ row.idempotency_key[3] = "BUY"
                     /\ row.status \in {"DRY_RUN", "FILLED"})

\* C12: in any cycle at most max_trades_per_run orders succeed; the N-th
\* successful trade is allowed, and once N trades have succeeded no further
\* order is executed in that cycle.
C12_AtMostMaxTradesPerRun ==
  /\ \A r \in 1..Len(runs) : SuccessfulBuys(r) <= cfg.max_trades_per_run
  /\ InEntryLoop /\ SuccessfulBuys(run_id) >= cfg.max_trades_per_run =>
       pc \in {"exec_return", "report"}

\* with the limit at 2 the second trade of the cycle succeeded and the loop
\* has stopped
C12_Witness ==
  /\ pc = "report"
  /\ cfg.max_trades_per_run = 2
  /\ SuccessfulBuys(run_id) = 2
  /\ tracker.trades_this_run = 2

\* the result is the simulated fill of the intent
DryRunFillOf(res, it) ==
  /\ res.status = "DRY_RUN"
  /\ res.fill_price = it.price
  /\ res.fill_size = it.size_usd

\* C13: in dry-run mode no request is ever sent to the brokerage, for entries
\* and for exits, and every executed BUY returns DRY_RUN with fill_price
\* equal to intent.price and fill_size equal to intent.size_usd.
C13_DryRunSendsNothing ==
  cfg.mode = "dry-run" =>
    /\ trade_log = EmptyBag
    /\ token_map = Unbuilt
    /\ \A c \in BagToSet(adapter_log) : c.kind = "buy" /\ ~c.raised
    /\ pc \in {"exec_persist"} => DryRunFillOf(result, intent)
    /\ pc = "exec_return" =>
         \/ DryRunFillOf(result, intent)
         \/ result.status = "DUPLICATE"
         \/ result.status = "REJECTED" /\ result.error_message = MsgKillSwitch
    /\ \A it \in BagToSet(order_intents), res \in BagToSet(order_results) :
         it.side = "BUY" /\ res.idempotency_key = it.idempotency_key =>
           DryRunFillOf(res, it)

\* a dry-run cycle has bought and its exit pass has sold, and nothing was
\* sent to the brokerage
C13_Witness ==
  /\ cfg.mode = "dry-run"
  /\ trade_log = EmptyBag
  /\ \E it \in BagToSet(order_intents), res \in BagToSet(order_results) :
        it.side = "BUY" /\ res.idempotency_key = it.idempotency_key
          /\ DryRunFillOf(res, it)
  /\ \E res \in BagToSet(order_results) :
        res.idempotency_key[3] = "SELL" /\ res.status = "DRY_RUN"

\* the supervisor is past start's preamble and has not left _loop
InLoop(d) == daemon[d].pc \in {"loop", "scan", "sleep"}

\* C14: two supervisor processes on one host are never in their scan loops at
\* the same time, however the steps of their two start() calls interleave
C14_NeverTwoLoops ==
  \A d \in Daemons, e \in Daemons : d # e => ~(InLoop(d) /\ InLoop(e))

\* the PID file holds the pid of a process that exists
NamesLiveProcess ==
  \/ pid_file = "other"
  \/ pid_file \in Daemons /\ daemon[pid_file].pc \notin {"off", "refused", "exited"}

\* C15: start refuses (exit code 1, PID file untouched) iff the PID file names
\* a live process; with no file it proceeds, with a stale file (dead process or
\* no integer) it removes the file and proceeds; after proceeding the file
\* holds the pid of the process, and a clean exit removes the file
C15_SingleInstanceLock ==
  [][\A d \in Daemons :
       /\ daemon[d].pc = "check" /\ daemon'[d].pc # "check" =>
            /\ daemon'[d].pc = "refused" <=> NamesLiveProcess
            /\ daemon'[d].pc = "refused" => pid_file' = pid_file
            /\ daemon'[d].pc # "refused" =>
                 daemon'[d].pc = "write" /\ pid_file' = NoFile
       /\ daemon[d].pc = "write" /\ daemon'[d].pc # "write" =>
            daemon'[d].pc = "begin" /\ pid_file' = d
       /\ daemon[d].pc # "exited" /\ daemon'[d].pc = "exited" =>
            daemon[d].pc = "cleanup" /\ pid_file' = NoFile
       /\ daemon[d].pc = "refused" => daemon'[d] = daemon[d]]_vars

\* a start refused because the other supervisor is in its loop, and the file
\* still names that supervisor
C15_Witness ==
  \E d \in Daemons, e \in Daemons :
    /\ d # e
    /\ daemon[e].pc = "refused"
    /\ InLoop(d)
    /\ pid_file = d

\* the supervisor has finished a cycle and is in the sleep that follows it
Sleeping(d) == daemon[d].pc = "sleep"

\* the wait the loop computes after a cycle, from the counters it has then
ExpectedWait(dm) ==
  IF dm.outcome = "completed" THEN dm.interval
  ELSE Min(dm.interval * (2 ^ dm.consecutive_failures), MAX_BACKOFF)

\* C16 as stated: after each cycle the supervisor waits interval seconds if
\* the cycle succeeded and min(interval * 2^k, 600) seconds if it failed
C16_SleepsWholeWait ==
  \A d \in Daemons : Sleeping(d) => daemon[d].remaining = ExpectedWait(daemon[d])

\* C16: after each cycle wait is interval if the cycle succeeded and
\* min(interval * 2^k, 600) if it failed, k being the consecutive failures
\* including this one, and k is 0 after a success; the wait is counted from
\* the start of the cycle: the sleep after the cycle lasts at most
\* max(0, wait - duration of the cycle) seconds
C16_WaitFromCycleStart ==
  /\ [][\A d \in Daemons :
          daemon[d].pc = "scan" /\ daemon'[d].pc # "scan" =>
            LET dm == daemon[d]
                after == daemon'[d]
            IN /\ Sleeping(d)'
               /\ after.consecutive_failures =
                    IF after.outcome = "completed" THEN 0
                    ELSE dm.consecutive_failures + 1
               /\ after.wait = ExpectedWait(after)
               /\ \E elapsed \in ScanSeconds :
                    after.remaining = Max(0, after.wait - elapsed)]_vars
  /\ [](\A d \in Daemons :
          /\ daemon[d].wait <= Max(daemon[d].interval, MAX_BACKOFF)
          /\ daemon[d].remaining <= daemon[d].wait)

\* the third failure in a row of a supervisor with the default interval: the
\* wait is capped at MAX_BACKOFF, and 30 seconds of it went into the cycle
C16_Witness ==
  \E d \in Daemons :
    /\ Sleeping(d)
    /\ daemon[d].interval = DEFAULT_INTERVAL
    /\ daemon[d].consecutive_failures = 3
    /\ daemon[d].wait = MAX_BACKOFF
    /\ daemon[d].remaining = MAX_BACKOFF - 30

\* a stop signal has arrived while the supervisor runs a cycle
StoppedInCycle(d) == daemon[d].pc = "scan" /\ ~daemon[d].running

\* the stats of a supervisor as _save_state writes them
SavedStats(d) ==
  /\ state_file.pid = d
  /\ state_file.total_scans = daemon[d].total_scans
  /\ state_file.total_successes = daemon[d].total_successes
  /\ state_file.total_failures = daemon[d].total_failures
  /\ state_file.consecutive_failures = daemon[d].consecutive_failures

\* C17: when a stop signal arrives during a cycle, the cycle runs to its end
\* and is counted, the supervisor starts no further cycle, and it exits, having
\* removed the PID file and saved its stats
C17_StopAfterCurrentCycle ==
  /\ [][\A d \in Daemons :
          /\ StoppedInCycle(d) /\ daemon'[d] # daemon[d] =>
               /\ daemon'[d].pc = "sleep"
               /\ daemon'[d].outcome \in {"completed", "aborted", "failed", "raised"}
               /\ daemon'[d].total_scans = daemon[d].total_scans
               /\ daemon'[d].total_successes + daemon'[d].total_failures
                    = daemon'[d].total_scans
          /\ InLoop(d) /\ ~daemon[d].running =>
               /\ ~daemon'[d].running
               /\ daemon[d].pc # "scan" => daemon'[d].pc # "scan"
               /\ daemon'[d].total_scans = daemon[d].total_scans
          /\ daemon[d].pc # "exited" /\ daemon'[d].pc = "exited" =>
               /\ ~daemon[d].running
               /\ pid_file' = NoFile
               /\ SavedStats(d)']_vars
  /\ \A d \in Daemons : StoppedInCycle(d) ~> daemon[d].pc = "exited"

\* a stop signal that arrives during the second cycle of a supervisor
C17_Witness ==
  \E d \in Daemons :
    /\ StoppedInCycle(d)
    /\ daemon[d].total_scans = 2
    /\ pid_file = d

\* the counters of a supervisor add up: every cycle that has ended is counted
\* once, as a success or as a failure
CountedOnce(dm) ==
  dm.total_scans
    = dm.total_successes + dm.total_failures + (IF dm.pc = "scan" THEN 1 ELSE 0)

\* C18: a cycle counts as a success iff ScanPipeline.run returns a summary with
\* an empty error list; a summary with errors or an exception counts as a
\* failure; each cycle increments total_scans and exactly one of
\* total_successes and total_failures
C18_SuccessIffNoErrors ==
  /\ [](\A d \in Daemons : CountedOnce(daemon[d]))
  /\ [][\A d \in Daemons :
          LET dm == daemon[d]
              after == daemon'[d]
          IN /\ dm.pc = "scan" /\ after.pc # "scan" =>
                  /\ after.total_scans = dm.total_scans
                  /\ IF after.outcome = "completed"
                     THEN /\ after.total_successes = dm.total_successes + 1
                          /\ after.total_failures = dm.total_failures
                     ELSE /\ after.outcome \in {"aborted", "failed", "raised"}
                          /\ after.total_successes = dm.total_successes
                          /\ after.total_failures = dm.total_failures + 1
                  /\ is_kill_switch_active => after.outcome # "completed"
             /\ dm.pc # "scan" =>
                  /\ after.total_successes = dm.total_successes
                  /\ after.total_failures = dm.total_failures
                  /\ after.total_scans =
                       dm.total_scans + (IF after.pc = "scan" THEN 1 ELSE 0)]_vars

\* a supervisor after three cycles: one clean, one whose run was aborted or
\* failed, and one that an exception ended
C18_Witness ==
  \E d \in Daemons :
    /\ Sleeping(d)
    /\ daemon[d].outcome = "raised"
    /\ daemon[d].total_scans = 3
    /\ daemon[d].total_successes = 1
    /\ daemon[d].total_failures = 2
    /\ daemon[d].consecutive_failures = 1

\* C19: in every cycle that completes, the exit pass over the open positions
\* has run by the time the run record is completed: no run is recorded as
\* completed while its exit pass is still to come, and an exit pass starts only
\* under a run that is still running
C19_ExitPassBeforeRunRecord ==
  /\ [](\A r \in 1..Len(runs) : runs[r] = "completed" => exit_due # r)
  /\ [][ExitPassDue /\ pc' = "exit_fetch" => runs[run_id'] = "running"]_vars

\* C20: every order_intents row is written by Executor.execute, and every
\* live brokerage order, buy or sell, is dispatched from Executor.execute
C20_OnlyExecutorWritesAndDispatches ==
  [][/\ order_intents' # order_intents => pc = "exec_begin"
     /\ cfg.mode = "live" /\ adapter_log' # adapter_log => pc = "exec_adapter"
     /\ trade_log' # trade_log => pc = "exec_adapter"]_vars

\* a step that starts an exit pass: ExitPipeline.run is called
ExitPassStarts == ExitPassDue /\ exit_due' = 0 /\ pc' # "check_state"

\* C21: an exit pass started while kill_switch or paused is set returns at
\* once and leaves the store as it is: no price is fetched, no position is
\* marked or closed, no SELL intent or result is written, nothing is sent
C21_ExitPassSkippedUnderFlags ==
  [][ExitPassStarts /\ (kill_switch \/ paused) =>
       /\ pc' = "idle"
       /\ UNCHANGED << dbVars, worldVars, flagVars, price_map, exit_positions >>]_vars

\* after the last completed cycle an exit pass has been started; a flag is
\* set, and the open position is as the entry left it, with no SELL written
C21_Witness ==
  /\ pc = "idle"
  /\ exit_due = 0
  /\ Len(runs) >= 1
  /\ runs[Len(runs)] = "completed"
  /\ kill_switch \/ paused
  /\ \E i \in 1..Len(positions) :
       /\ positions[i].status = "open"
       /\ positions[i].current_price = positions[i].entry_price
  /\ \A it \in BagToSet(order_intents) : it.side = "BUY"

\* the key _execute_exit builds for a position sold at a price in this pass
ExitKey(pos, price) ==
  generate_idempotency_key(run_id, pos.market_id, "SELL", price)

SellIntentsAfter(key) ==
  Count(order_intents', LAMBDA r : r.idempotency_key = key)

\* result rows of a SELL that went through
SellsDone(table, key) ==
  Count(table, LAMBDA r : r.idempotency_key = key
                            /\ r.status \in {"DRY_RUN", "FILLED"})

\* the fetched price of a position reaches the exit threshold
AtThreshold(pos) ==
  /\ price_map[pos.market_id] # NoValue
  /\ price_map[pos.market_id] >= cfg.min_exit_price

\* ExitPipeline.run returns, or an exception leaves it
ExitPassEnds == pc \in {"exit_loop", "exit_sell"} /\ pc' = "idle"

\* what the pass does with the position its loop is at: the SELL intent is new
\* only at the threshold, and the position is closed exactly when a DRY_RUN or
\* FILLED result of its SELL is written; otherwise it stays open
PositionHandled ==
  pc \in {"exit_loop", "exit_sell"} /\ (pc' # pc \/ exit_idx' # exit_idx) =>
    LET id == exit_positions[exit_idx]
        pos == positions[id]
        cp == price_map[pos.market_id]
    IN /\ order_intents' # order_intents =>
            AtThreshold(pos) /\ SellIntentsAfter(ExitKey(pos, cp)) = 1
       /\ pc = "exit_loop" /\ AtThreshold(pos) =>
            SellIntentsAfter(ExitKey(pos, cp)) = 1
       /\ positions'[id].status = "closed" <=>
            /\ AtThreshold(pos)
            /\ SellsDone(order_results', ExitKey(pos, cp))
                 > SellsDone(order_results, ExitKey(pos, cp))
       /\ \A j \in 1..Len(positions) :
            j # id => positions'[j] = positions[j]

\* C22 for the positions the loop of the pass reaches: the loop is at
\* position exit_idx, the positions before it have been handled
C22_PositionsReached == [][PositionHandled]_vars

\* C22: in an exit pass a SELL is emitted for an open position iff its
\* fetched price is at least min_exit_price (equality triggers), and the
\* position is closed iff the SELL result is DRY_RUN or FILLED; below the
\* threshold, without a price, or with a SELL that ended otherwise it stays open
C22_SellIffAtThreshold ==
  [][/\ PositionHandled
     /\ ExitPassEnds =>
          \A i \in 1..Len(exit_positions) :
            AtThreshold(positions[exit_positions[i]]) => i <= exit_idx]_vars

\* the spread of the scanned book of a market is within the ceiling (1e-4)
SpreadWithinCeiling(book, ceiling) ==
  /\ book.best_bid > 0
  /\ (book.best_ask - book.best_bid) * 10000 <= ceiling * book.best_bid

\* C23: the slippage check of a signal passes iff the best_bid scanned for the
\* signal's market is positive and (best_ask - best_bid) / best_bid, from the
\* scanned best_bid and best_ask, is at most slippage_ceiling
C23_SlippageFromScannedBook ==
  Len(verdict.checks) = 10 /\ sig_idx >= 1 /\ sig_idx <= Len(signals) =>
    (verdict.checks[10].passed
       <=> SpreadWithinCeiling(ScannedBook[signals[sig_idx].market_id],
                               cfg.slippage_ceiling))


\* closed positions' realized PnL, shares * (exit price - entry price), as the
\* exit pass computes it when it closes a position
RealizedPnl ==
  LET RECURSIVE S(_)
      S(i) == IF i = 0 THEN 0
              ELSE (IF positions[i].status = "closed"
                    THEN (positions[i].size_usd
                            * (positions[i].current_price - positions[i].entry_price))
                           \div positions[i].entry_price
                    ELSE 0) + S(i - 1)
  IN S(Len(positions))

RealizedLossToday == IF RealizedPnl < 0 THEN 0 - RealizedPnl ELSE 0

\* a step in which RiskEngine.evaluate returns a verdict
Evaluates ==
  /\ Len(verdict'.checks) = 10
  /\ verdict' # verdict \/ signals' # signals \/ risk_checks' # risk_checks

CheckNamed(v, name) ==
  v.checks[CHOOSE i \in 1..Len(v.checks) : v.checks[i].check_name = name]

\* C24: a signal fails the daily_loss check iff the absolute value of today's
\* realized losses exceeds max_daily_loss_usd: once the positions closed today
\* have lost more than the limit, every later evaluation is blocked with
\* DAILY_LOSS.
C24_DailyLossBlocks ==
  [][Evaluates =>
       (CheckNamed(verdict', "daily_loss").passed
          <=> ~(RealizedLossToday > cfg.max_daily_loss_usd))]_vars


\* the market the evaluation of this step is about
EvaluatedMarket ==
  IF pc = "evaluate" THEN signals[sig_idx].market_id
  ELSE signals'[sig_idx'].market_id

\* a successful trade on the market is in the store: an order result DRY_RUN or
\* FILLED whose intent names the market
TradedOn(market_id) ==
  \E r \in BagToSet(order_results), i \in BagToSet(order_intents) :
     /\ r.idempotency_key = i.idempotency_key
     /\ i.market_id = market_id
     /\ r.status \in {"DRY_RUN", "FILLED"}

C25_WitnessElapsed ==
  /\ Len(verdict.checks) = 10
  /\ sig_idx >= 1 /\ sig_idx <= Len(signals)
  /\ TradedOn(signals[sig_idx].market_id)
  /\ since_last_trade = cfg.cooldown_minutes
  /\ CheckNamed(verdict, "cooldown").passed


\* the reason codes in the order of their resolution, each with the condition
\* that triggers it for a bucket market
ReasonRules(bm) ==
  LET net == bm.bucket_probability - bm.outcome_price_yes
               - cfg.fee_estimate - cfg.slippage_estimate
  IN << <<"NO_FORECAST_AVAILABLE", ~bm.forecast>>,
        <<"NOT_ACCEPTING_ORDERS", ~bm.accepting_orders>>,
        <<"ZERO_LIQUIDITY", bm.liquidity <= 0>>,
        <<"PRICE_ABOVE_MAX_ENTRY", bm.outcome_price_yes > cfg.max_entry_price>>,
        <<"NEGATIVE_EDGE", net < 0>>,
        <<"EDGE_BELOW_THRESHOLD", net < cfg.min_edge_threshold>> >>

FirstReason(bm) ==
  LET rules == ReasonRules(bm)
      triggered == {i \in 1..Len(rules) : rules[i][2]}
  IN IF triggered = {} THEN "OPPORTUNITY"
     ELSE rules[CHOOSE i \in triggered : \A j \in triggered : i <= j][1]

\* the edge results a generation step has appended
NewEdgeResults == SubSeq(edge_results', Len(edge_results) + 1, Len(edge_results'))

BagOfSeq(seq) ==
  LET RECURSIVE B(_)
      B(i) == IF i = 0 THEN EmptyBag ELSE B(i - 1) (+) SetToBag({seq[i]})
  IN B(Len(seq))

\* C26: every bucket gets the first reason code that applies in the order
\* NO_FORECAST_AVAILABLE, NOT_ACCEPTING_ORDERS, ZERO_LIQUIDITY,
\* PRICE_ABOVE_MAX_ENTRY, NEGATIVE_EDGE, EDGE_BELOW_THRESHOLD, otherwise
\* OPPORTUNITY, and the signals are the OPPORTUNITY results, one signal each.
C26_FirstReasonThatApplies ==
  [][edge_results' # edge_results \/ events' # events =>
       LET new == NewEdgeResults
       IN /\ BagOfSeq([i \in 1..Len(new) |->
                         <<new[i].market_id, new[i].market_price_yes,
                           new[i].reason_code>>])
               = BagOfSeq([i \in 1..Len(events') |->
                             <<events'[i].market_id, events'[i].outcome_price_yes,
                               FirstReason(events'[i])>>])
          /\ LET promoted == SelectSeq(new, LAMBDA r : r.reason_code = "OPPORTUNITY")
             IN /\ Len(signals') = Len(promoted)
                /\ \A i \in 1..Len(promoted) :
                     /\ signals'[i].market_id = promoted[i].market_id
                     /\ signals'[i].market_price_yes = promoted[i].market_price_yes]_vars

\* a scan of two buckets: the first triggers two rules (it accepts no orders
\* and has no liquidity) and gets the earlier code, the second is promoted
C26_Witness ==
  /\ Len(events) = 2
  /\ Len(edge_results) = 2
  /\ ~events[1].accepting_orders /\ events[1].liquidity <= 0 /\ events[1].forecast
  /\ \E i \in 1..2 : /\ edge_results[i].market_id = events[1].market_id
                     /\ edge_results[i].reason_code = "NOT_ACCEPTING_ORDERS"
  /\ FirstReason(events[2]) = "OPPORTUNITY"
  /\ Len(signals) = 1
  /\ signals[1].market_id = events[2].market_id


\* a price in 1e-5 dollars rounded to 4 decimal places, in 1e-4 dollars
Round4(price) ==
  CHOOSE n \in 0..10001 : 10 * n - 5 <= price /\ price < 10 * n + 5

SameKeyInputs(a, b) ==
  /\ a.run_id = b.run_id
  /\ a.market_id = b.market_id
  /\ a.side = b.side
  /\ Round4(a.price) = Round4(b.price)

\* C27: the key is a function of (run_id, market_id, side, price rounded to 4
\* decimal places): two calls give the same key iff they agree on these, so
\* prices equal after rounding share a key, and another run_id or a price that
\* differs at 4 decimal places gives another key.
C27_KeyOfRoundedInputs ==
  [][intent # NoIntent /\ intent' # NoIntent =>
       (intent'.idempotency_key = intent.idempotency_key
          <=> SameKeyInputs(intent', intent))]_vars

\* a call at 0.07504: its key is the key of 0.07500 in the same run, market
\* and side, not the key of 0.07506 and not the key of the other run
C27_Witness ==
  /\ intent # NoIntent
  /\ intent.price = 7504
  /\ intent.idempotency_key
       = generate_idempotency_key(intent.run_id, intent.market_id, intent.side, 7500)
  /\ intent.idempotency_key
       # generate_idempotency_key(intent.run_id, intent.market_id, intent.side, 7506)
  /\ intent.idempotency_key
       # generate_idempotency_key(3 - intent.run_id, intent.market_id, intent.side, 7504)


\* a direct call of run_migrations returns
MigrationsReturn == newly_applied' # newly_applied

\* C28: run_migrations is idempotent: an invocation on a store that an earlier
\* invocation has migrated applies no migration and leaves every table as it
\* is, the control flags in system_state included.
C28_MigrationsIdempotent ==
  [][MigrationsReturn /\ schema_versions = Migrations =>
       /\ newly_applied' = << >>
       /\ UNCHANGED << schema_versions, flagVars, dbVars, edge_results,
                       operator_commands >>]_vars

\* run_migrations has run again on a migrated store in which an operator had
\* set the kill switch and the pause: both are still set
C28_Witness ==
  /\ schema_versions = Migrations
  /\ newly_applied = << >>
  /\ kill_switch /\ paused
  /\ Len(operator_commands) >= 1

RowOf(flag, value) ==
  IF flag = "kill_switch"
  THEN (IF value THEN "kill-switch on" ELSE "kill-switch off")
  ELSE (IF value THEN "pause" ELSE "resume")

\* C29: each operator command that changes a control flag updates the flag
\* and appends its operator_commands audit row as one transaction, so every
\* change of paused or kill_switch has a matching audit row.
C29_FlagChangeAudited ==
  [][flagVars' # flagVars =>
       /\ Len(operator_commands') = Len(operator_commands) + 1
       /\ operator_commands'[Len(operator_commands')]
            = IF kill_switch' # kill_switch THEN RowOf("kill_switch", kill_switch')
              ELSE RowOf("paused", paused')]_vars


\* a stage of the cycle raises: the run ends before its report stage
StageRaises ==
  /\ pc \in {"ingest", "evaluate", "exec_begin", "exec_adapter", "exec_persist",
             "exec_return"}
  /\ pc' = "idle"

\* pipeline.run() returns to the supervisor the summary of a failed run
FailedRunReturns ==
  /\ daemon[Supervisor].pc = "scan"
  /\ daemon'[Supervisor].pc = "sleep"
  /\ runs[Len(runs)] = "failed"

SourceCalls(pair) ==
  Count(noaa_log, LAMBDA r : r.pair = pair)
  + (IF noaa.pc = "request" /\ noaa.pair = pair THEN 1 ELSE 0)

\* get_forecast invocations for a pair from which a forecast was extracted
FoundCalls(pair) == Count(noaa_log, LAMBDA r : r.pair = pair /\ r.found)

FetchBegins == noaa'.fetches = noaa.fetches + 1

RetryStep == noaa.pc = "request" /\ noaa'.pc = "request" /\ noaa'.requests = noaa.requests + 1

\* the last attempt of get_forecast is answered
LastAttemptStep == noaa.pc = "request" /\ noaa.attempt = max_retries /\ noaa' # noaa

\* C32: a get_forecast call makes at most max_retries + 1 requests and ends;
\* another attempt follows only a 503, a 429 or a request error, after a
\* sleep of retry_base_delay * 2^attempt seconds; what answers the last
\* attempt ends the call, by an exception unless it is a response of status 200
C32_BoundedRetries ==
  /\ [](noaa.requests <= max_retries + 1)
  /\ [](\A i \in 1..Len(noaa.delays) : noaa.delays[i] = retry_base_delay * (2 ^ (i - 1)))
  /\ [][RetryStep =>
          /\ ~noaa'.last.arrived \/ noaa'.last.status \in {503, 429}
          /\ noaa.attempt < max_retries
          /\ noaa'.attempt = noaa.attempt + 1
          /\ Len(noaa'.delays) = noaa'.attempt]_vars
  /\ [][LastAttemptStep =>
          /\ noaa'.pc = "none"
          /\ noaa'.requests = max_retries + 1
          /\ \E r \in BagToSet(noaa_log') :
               /\ CopiesIn(r, noaa_log') = CopiesIn(r, noaa_log) + 1
               /\ r.requests = max_retries + 1
               /\ r.outcome = (IF noaa'.last.arrived /\ noaa'.last.status = 200
                               THEN "returned" ELSE "raised")]_vars
  /\ (noaa.pc = "request") ~> (noaa.pc = "none")

\* a call whose four requests were answered 503: it slept 5, 10 and 20
\* seconds and raised
C32_Witness ==
  /\ noaa.pc = "none"
  /\ noaa.requests = 4
  /\ noaa.delays = <<5, 10, 20>>
  /\ noaa.last.status = 503
  /\ \E r \in BagToSet(noaa_log) : r.requests = 4 /\ r.outcome = "raised"


\* C33: each limit check passes at equality and fails just beyond it:
\* position_size, total_exposure (current + proposed), per_city_exposure
\* (the city's current + proposed) and daily_loss pass iff the value is at
\* most the limit; cooldown (when the market has a last trade) and
\* time_to_resolution pass iff the value is at least the minimum;
\* trades_per_run passes iff the counter is below max_trades_per_run
C33_LimitsInclusive ==
  Len(verdict.checks) = 10 /\ evaluated # NotEvaluated =>
    LET in == evaluated
        passed(name) == CheckNamed(verdict, name).passed
    IN /\ passed("position_size") <=> in.proposed_size_usd <= cfg.max_position_size_usd
       /\ passed("total_exposure")
            <=> in.total_exposure + in.proposed_size_usd <= cfg.max_total_exposure_usd
       /\ passed("per_city_exposure")
            <=> in.city_exposure + in.proposed_size_usd <= cfg.max_per_city_exposure_usd
       /\ passed("daily_loss") <=> in.daily_loss <= cfg.max_daily_loss_usd
       /\ passed("cooldown")
            <=> (in.minutes_since_last_trade = NoValue
                 \/ in.minutes_since_last_trade >= cfg.cooldown_minutes)
       /\ passed("time_to_resolution") <=> in.hours >= cfg.min_hours_to_resolution
       /\ passed("trades_per_run") <=> in.trades_this_run < cfg.max_trades_per_run

\* every value at its limit, the trade counter one below: approved
C33_Witness ==
  /\ Len(verdict.checks) = 10
  /\ evaluated # NotEvaluated
  /\ evaluated.proposed_size_usd = cfg.max_position_size_usd
  /\ evaluated.total_exposure + evaluated.proposed_size_usd = cfg.max_total_exposure_usd
  /\ evaluated.city_exposure + evaluated.proposed_size_usd = cfg.max_per_city_exposure_usd
  /\ evaluated.daily_loss = cfg.max_daily_loss_usd
  /\ evaluated.minutes_since_last_trade = cfg.cooldown_minutes
  /\ evaluated.hours = cfg.min_hours_to_resolution
  /\ evaluated.trades_this_run = cfg.max_trades_per_run - 1
  /\ verdict.approved


\* what the tracker holds in memory is what the store's open positions sum to
TrackerAgreesWithStore ==
  /\ tracker.total_exposure # NoValue => tracker.total_exposure = get_total_open_exposure
  /\ \A c \in Cities :
       tracker.city_exposure[c] # NoValue
         => tracker.city_exposure[c] = get_city_open_exposure(c)

\* the entry loop evaluates a signal
EntryEvaluates == pc = "evaluate" /\ risk_checks' # risk_checks

\* C34: within a cycle, once a successful trade has been recorded the
\* tracker's total exposure and the exposure of the trade's city equal the
\* store's sums of size_usd over the open positions, and each later
\* evaluation of the cycle is given these sums
C34_TrackerMatchesStore ==
  /\ [](InEntryLoop /\ tracker.trades_this_run >= 1 =>
          /\ tracker.total_exposure # NoValue
          /\ TrackerAgreesWithStore)
  /\ [][InEntryLoop /\ Len(positions') = Len(positions) + 1 =>
          /\ tracker'.trades_this_run = tracker.trades_this_run + 1
          /\ tracker'.total_exposure = get_total_open_exposure'
          /\ \A city \in Cities :
               city = positions'[Len(positions')].city_slug
                 => tracker'.city_exposure[city] = get_city_open_exposure(city)']_vars
  /\ [][EntryEvaluates =>
          /\ evaluated'.total_exposure = get_total_open_exposure
          /\ evaluated'.city_exposure
               = get_city_open_exposure(CityOf[signals[sig_idx].market_id])]_vars

\* the second signal of a cycle, on the market of the first, was evaluated
\* with the 5.00 the first trade added, in total and for the city
C34_Witness ==
  /\ tracker.trades_this_run = 1
  /\ Len(positions) = 1
  /\ positions[1].city_slug = "nyc"
  /\ sig_idx = 3
  /\ signals[2].market_id = "m1"
  /\ evaluated # NotEvaluated
  /\ evaluated.total_exposure = 500
  /\ evaluated.city_exposure = 500
  /\ tracker.total_exposure = 500
  /\ tracker.city_exposure["nyc"] = 500


\* executor.execute has returned a result to the entry loop, which goes on
ExecutorReturned == pc = "exec_return" /\ raised = MsgEmpty /\ pc' # pc

\* results DRY_RUN or FILLED of buy orders in the store
FilledBuys ==
  Count(order_results,
        LAMBDA r : r.status \in {"DRY_RUN", "FILLED"} /\ r.idempotency_key[3] = "BUY")

\* C35: in the entry stage one position is opened for a result DRY_RUN or
\* FILLED, with the trade counted and its size added to the tracker, and for
\* a result REJECTED, FAILED or DUPLICATE no position is opened and the
\* tracker stays as it was; positions are opened nowhere else in the stage
C35_PositionIffFilled ==
  /\ [][ExecutorReturned =>
          IF result.status \in {"DRY_RUN", "FILLED"}
          THEN /\ Len(positions') = Len(positions) + 1
               /\ SubSeq(positions', 1, Len(positions)) = positions
               /\ positions'[Len(positions')].market_id = signals[sig_idx].market_id
               /\ positions'[Len(positions')].status = "open"
               /\ positions'[Len(positions')].size_usd = signals[sig_idx].proposed_size_usd
               /\ tracker'.trades_this_run = tracker.trades_this_run + 1
               /\ tracker'.total_exposure
                    = tracker.total_exposure + signals[sig_idx].proposed_size_usd
          ELSE /\ result.status \in {"REJECTED", "FAILED", "DUPLICATE"}
               /\ positions' = positions
               /\ tracker' = tracker]_vars
  /\ [][InEntryLoop /\ positions' # positions => ExecutorReturned]_vars
  /\ [](pc # "exec_return" => Len(positions) = FilledBuys)

\* a live cycle whose first order failed and whose second was filled: one
\* position, one trade counted
C35_Witness ==
  /\ pc = "report"
  /\ cfg.mode = "live"
  /\ \E r \in BagToSet(order_results) : r.status \in {"FAILED", "REJECTED"}
  /\ \E r \in BagToSet(order_results) : r.status = "FILLED"
  /\ Len(positions) = 1
  /\ tracker.trades_this_run = 1
  /\ tracker.total_exposure = 500


\* C36: in dry-run mode, when an exit pass that was not skipped ends, every
\* position that was open at its start and whose fetched YES price is at
\* least min_exit_price is closed, also when open positions share a market
C36_AllAtThresholdClosed ==
  [][cfg.mode = "dry-run" /\ ExitPassEnds =>
       \A i \in 1..Len(exit_positions) :
          AtThreshold(positions[exit_positions[i]])
            => positions'[exit_positions[i]].status = "closed"]_vars


\* C39: a stop signal that arrives after the signal handlers are installed and
\* before the first cycle begins stops the supervisor: when the handler has
\* run during start-up, _running is still False when start goes on to the
\* loop, so that no cycle is started, and the supervisor exits
C39_StartupStopStops ==
  /\ [][\A d \in Daemons :
          daemon[d].pc = "begin_stopped" => ~daemon'[d].running]_vars
  /\ \A d \in Daemons :
       daemon[d].pc = "begin_stopped" ~> daemon[d].pc = "exited"

\* the cycle is at its state check and the store holds a control flag
ChecksUnderFlag == pc = "check_state" /\ (kill_switch \/ paused)

\* what a scan and an order leave behind
ScanAndOrderTraces ==
  << events, edge_results, risk_checks, order_intents, order_results,
     positions, adapter_log, trade_log >>

\* the cycle of the supervisor has returned, and its run was aborted
AbortedCycleReturns ==
  /\ daemon[Supervisor].pc = "scan"
  /\ daemon'[Supervisor].pc = "sleep"
  /\ runs[Len(runs)] = "aborted"

\* C37: a cycle that finds kill_switch or paused set at its state check makes
\* no scan and no order and completes its run as aborted; the supervisor
\* counts every such cycle as a failure: consecutive_failures grows by one,
\* and the wait is min(interval * 2^k, MAX_BACKOFF), never less than after the
\* failure before
C37_AbortedCyclesBackOff ==
  [][/\ pc = "idle" /\ pc' = "check_state" => UNCHANGED ScanAndOrderTraces
     /\ ChecksUnderFlag /\ pc' # pc =>
          /\ pc' = "idle"
          /\ runs' = [runs EXCEPT ![run_id] = "aborted"]
          /\ UNCHANGED ScanAndOrderTraces
     /\ AbortedCycleReturns =>
          LET dm == daemon[Supervisor]
              after == daemon'[Supervisor]
          IN /\ after.outcome = "aborted"
             /\ after.consecutive_failures = dm.consecutive_failures + 1
             /\ after.total_failures = dm.total_failures + 1
             /\ after.total_successes = dm.total_successes
             /\ after.wait = Min(dm.interval * (2 ^ after.consecutive_failures),
                                 MAX_BACKOFF)
             /\ after.wait >= Min(dm.interval * (2 ^ dm.consecutive_failures),
                                  MAX_BACKOFF)]_vars

\* the third cycle in a row aborted under the pause flag: three failures, and
\* the wait has reached MAX_BACKOFF
C37_Witness ==
  /\ paused /\ ~kill_switch
  /\ runs = << "aborted", "aborted", "aborted" >>
  /\ daemon[Supervisor].pc = "sleep"
  /\ daemon[Supervisor].interval = DEFAULT_INTERVAL
  /\ daemon[Supervisor].consecutive_failures = 3
  /\ daemon[Supervisor].wait = MAX_BACKOFF
  /\ order_intents = EmptyBag

\* ScanPipeline.run is between create_run and its return
InCycle ==
  pc \in {"check_state", "ingest", "evaluate", "exec_begin", "exec_adapter",
          "exec_persist", "exec_return", "report"}

FailedCycleEnds ==
  /\ daemon[Supervisor].pc = "scan"
  /\ daemon'[Supervisor].pc = "sleep"
  /\ daemon'[Supervisor].outcome # "completed"

\* C40: the wait the supervisor applies after a failed cycle is never shorter
\* than the wait it applies after a successful cycle, which is the interval,
\* whatever the interval and the count of consecutive failures
C40_FailureWaitsAtLeastInterval ==
  [][FailedCycleEnds =>
       daemon'[Supervisor].wait >= daemon[Supervisor].interval]_vars

====
